---------------------------- MODULE Spec2Model ----------------------------
(***************************************************************************)
(* A model of the offline-first synchronisation engine of kidscard:        *)
(*   src/src/hooks/useFlashcardSync.ts   (Sync Engine, Conflict Resolver,  *)
(*                                        Retry Classifier)                *)
(*   src/src/hooks/useOfflineStorage.ts  (Local Store)                     *)
(*   src/src/hooks/useFlashcards.ts      (Data Facade)                     *)
(*                                                                         *)
(* Strings of the program (error messages, category names) are TLA+        *)
(* strings, and toLowerCase / trim / includes are computed on them         *)
(* character by character.  JavaScript Maps are sequences in insertion     *)
(* order.  Every `await` of an async function is a step boundary: one      *)
(* action is the resolution of the awaited call followed by the            *)
(* synchronous code up to the next await.                                  *)
(***************************************************************************)
EXTENDS Integers, Sequences, FiniteSets, TLC

(***************************************************************************)
(* Bounds of the model.                                                    *)
(***************************************************************************)
\* Largest value of Date.now() the clock reaches (in clock steps).
MaxClock == 2
\* Longest list drawn as an input of a pure function.
MaxLen == 3
\* Largest updatedAt of an item drawn as an input of a pure function.
MaxTime == 2
\* Facade mutations per behaviour of the engine specification.
MaxMutations == 2
\* Requests the remote may fail per behaviour of the engine specification.
MaxFailures == 1

\* Date.now() of the facade's specification goes up to this.
MaxFacadeClock == 4
\* SYNC_DEBOUNCE_MS is 8_000 in the source (useFlashcards.ts:38), scaled down
\* to clock steps.
SYNC_DEBOUNCE_MS == 2
\* SYNC_BATCH_SIZE is 50 in the source (useFlashcardSync.ts:8).  The model
\* scales it down so that a push of two rows already needs two batches.
SYNC_BATCH_SIZE == 1
\* PULL_PAGE_SIZE is 100 in the source (useFlashcardSync.ts:9), scaled down
\* so that one remote flashcard already fills a page.
PULL_PAGE_SIZE == 1
\* TRANSIENT_FAILURE_COOLDOWN_MS is 30_000 in the source
\* (useFlashcardSync.ts:10); the model's clock counts in steps, and the
\* cooldown lasts this many steps.
TRANSIENT_FAILURE_COOLDOWN_MS == 2

\* An optional numeric field that is absent (updatedAt?: number).
Undefined == 0 - 1

(***************************************************************************)
(* Strings.                                                                *)
(***************************************************************************)
Max(a, b) == IF a >= b THEN a ELSE b

CharAt(s, i) == SubSeq(s, i, i)

\* String.prototype.toLowerCase on one character (the letters that occur in
\* the model's strings in upper case).
LowerChar(c) ==
    CASE c = "A" -> "a" [] c = "B" -> "b" [] c = "C" -> "c" [] c = "D" -> "d"
      [] c = "E" -> "e" [] c = "F" -> "f" [] c = "N" -> "n" [] c = "P" -> "p"
      [] c = "S" -> "s" [] c = "T" -> "t" [] c = "U" -> "u"
      [] OTHER -> c

RECURSIVE toLowerCase(_)
toLowerCase(s) ==
    IF Len(s) = 0 THEN ""
    ELSE LowerChar(CharAt(s, 1)) \o toLowerCase(SubSeq(s, 2, Len(s)))

IsSpace(c) == c = " "

RECURSIVE trimStart(_)
trimStart(s) ==
    IF Len(s) > 0 /\ IsSpace(CharAt(s, 1)) THEN trimStart(SubSeq(s, 2, Len(s)))
    ELSE s

RECURSIVE trimEnd(_)
trimEnd(s) ==
    IF Len(s) > 0 /\ IsSpace(CharAt(s, Len(s)))
    THEN trimEnd(SubSeq(s, 1, Len(s) - 1))
    ELSE s

\* String.prototype.trim
trim(s) == trimEnd(trimStart(s))

\* String.prototype.includes
includes(s, sub) ==
    \E i \in 1..(Len(s) - Len(sub) + 1) : SubSeq(s, i, i + Len(sub) - 1) = sub

(***************************************************************************)
(* Retry Classifier.                                                       *)
(***************************************************************************)
TransientSignatures ==
    { "networkerror", "failed to fetch", "cors", "http/3 525",
      "status code: 525", "fetch resource", "statement timeout",
      "canceling statement", "code: \"57014\"", "57014", "aborterror",
      "operation was aborted" }

isTransientNetworkError(message) ==
    LET normalized == toLowerCase(message)
    IN  \E sig \in TransientSignatures : includes(normalized, sig)

TemporarilyUnavailable ==
    "Cloud sync temporarily unavailable. Changes are saved locally."

\* Every error the engine's try blocks catch is an Error instance (thrown by
\* `throw new Error(...)` or by the network layer), so the fallback branch
\* of the source is not taken.
normalizeSyncErrorMessage(errorMessage) ==
    IF isTransientNetworkError(errorMessage) THEN TemporarilyUnavailable
    ELSE errorMessage

\* Every failure starts a cooldown.
CooldownAfterAnyFailure(normalizedMessage, current, dateNow) ==
    dateNow + TRANSIENT_FAILURE_COOLDOWN_MS

\* The deadline the catch block of syncToCloud / pullFromCloud leaves in
\* retryBlockedUntil: it classifies the NORMALISED message.
CooldownAfterFailure(normalizedMessage, current, dateNow) ==
    IF isTransientNetworkError(normalizedMessage)
    THEN dateNow + TRANSIENT_FAILURE_COOLDOWN_MS
    ELSE current


(***************************************************************************)
(* Conflict Resolver.                                                      *)
(***************************************************************************)
\* chunkArray(items, chunkSize): the chunk that starts at 0-based `index`.
ChunkAt(items, index, chunkSize) ==
    SubSeq(items, index + 1,
           IF index + chunkSize < Len(items) THEN index + chunkSize
           ELSE Len(items))

\* Every chunk but the first is left out.
chunkArrayFirstOnly(items, chunkSize) ==
    IF Len(items) = 0 THEN << >> ELSE << ChunkAt(items, 0, chunkSize) >>

RECURSIVE ChunksFrom(_, _, _)
ChunksFrom(items, index, chunkSize) ==
    IF index >= Len(items) THEN << >>
    ELSE << ChunkAt(items, index, chunkSize) >>
         \o ChunksFrom(items, index + chunkSize, chunkSize)

chunkArray(items, chunkSize) ==
    IF Len(items) = 0 THEN << >> ELSE ChunksFrom(items, 0, chunkSize)

\* `x.updatedAt || 0` and `x.updatedAt ?? 0`: an absent timestamp counts as 0.
TimeOf(item) == IF item.updatedAt = Undefined THEN 0 ELSE item.updatedAt

\* Map.get on a Map kept as the sequence of its values, keyed by id:
\* the position of the entry, 0 when the key is absent.
MapIndex(merged, id) ==
    IF \E i \in 1..Len(merged) : merged[i].id = id
    THEN CHOOSE i \in 1..Len(merged) :
             merged[i].id = id /\ \A j \in 1..(i - 1) : merged[j].id # id
    ELSE 0

\* Map.set always appends: what a list used in place of the Map would do.
MapSetAppends(merged, item) == Append(merged, item)

\* Map.set: a present key keeps its position, a new key goes last.
MapSet(merged, item) ==
    LET i == MapIndex(merged, item.id)
    IN  IF i = 0 THEN Append(merged, item) ELSE [merged EXCEPT ![i] = item]

\* Ties go to the remote item.
RemoteWinsOnTie(localItem, remoteItem) == TimeOf(remoteItem) >= TimeOf(localItem)

\* `remoteTime > localTime`
RemoteWins(localItem, remoteItem) == TimeOf(remoteItem) > TimeOf(localItem)

RECURSIVE SetAll(_, _)
SetAll(merged, items) ==
    IF Len(items) = 0 THEN merged
    ELSE SetAll(MapSet(merged, Head(items)), Tail(items))

\* A remote item the local side does not hold is left out.
MergeRemoteItemIfHeld(merged, remoteItem) ==
    LET i == MapIndex(merged, remoteItem.id)
    IN  IF i # 0 /\ RemoteWins(merged[i], remoteItem)
        THEN MapSet(merged, remoteItem)
        ELSE merged

MergeRemoteItem(merged, remoteItem) ==
    LET i == MapIndex(merged, remoteItem.id)
    IN  IF i = 0 THEN MapSet(merged, remoteItem)
        ELSE IF RemoteWins(merged[i], remoteItem) THEN MapSet(merged, remoteItem)
        ELSE merged

RECURSIVE MergeRemoteAll(_, _)
MergeRemoteAll(merged, remoteItems) ==
    IF Len(remoteItems) = 0 THEN merged
    ELSE MergeRemoteAll(MergeRemoteItem(merged, Head(remoteItems)),
                        Tail(remoteItems))

mergeData(localItems, remoteItems) ==
    MergeRemoteAll(SetAll(<< >>, localItems), remoteItems)

normalizeCategoryName(name) == toLowerCase(trim(name))

SyncedScore(category) == IF category.syncStatus = "synced" THEN 1 ELSE 0

\* The two comparisons in the opposite order: recency first, then synced.
pickPreferredByRecencyFirst(current, incoming) ==
    IF TimeOf(incoming) # TimeOf(current)
    THEN (IF TimeOf(incoming) > TimeOf(current) THEN incoming ELSE current)
    ELSE IF SyncedScore(incoming) # SyncedScore(current)
    THEN (IF SyncedScore(incoming) > SyncedScore(current) THEN incoming
          ELSE current)
    ELSE current

pickPreferredCategory(current, incoming) ==
    IF SyncedScore(incoming) # SyncedScore(current)
    THEN (IF SyncedScore(incoming) > SyncedScore(current) THEN incoming
          ELSE current)
    ELSE IF TimeOf(incoming) # TimeOf(current)
    THEN (IF TimeOf(incoming) > TimeOf(current) THEN incoming ELSE current)
    ELSE current

\* A Map<string, string> is a function on the set of its keys.
EmptyMap == [k \in {} |-> ""]

MapPut(map, key, value) ==
    [k \in DOMAIN map \cup {key} |-> IF k = key THEN value ELSE map[k]]

\* canonicalByKey is the sequence of its entries [key, value] in insertion
\* order.
KeyIndex(canonicalByKey, key) ==
    IF \E i \in 1..Len(canonicalByKey) : canonicalByKey[i].key = key
    THEN CHOOSE i \in 1..Len(canonicalByKey) : canonicalByKey[i].key = key
    ELSE 0

\* One iteration of the loop of dedupeCategoriesByName over
\* acc = [canonicalByKey, idRemap].
DedupeStep(acc, category) ==
    LET key == normalizeCategoryName(category.name)
        i == KeyIndex(acc.canonicalByKey, key)
    IN  IF i = 0
        THEN [acc EXCEPT !.canonicalByKey =
                  Append(@, [key |-> key, value |-> category])]
        ELSE LET existing == acc.canonicalByKey[i].value
                 preferred == pickPreferredCategory(existing, category)
                 replaced == preferred.id # existing.id
                 remap1 == IF replaced
                           THEN MapPut(acc.idRemap, existing.id, preferred.id)
                           ELSE acc.idRemap
             IN  [canonicalByKey |->
                      [acc.canonicalByKey EXCEPT ![i].value = preferred],
                  idRemap |-> MapPut(remap1, category.id, preferred.id)]

RECURSIVE DedupeLoop(_, _)
DedupeLoop(acc, categories) ==
    IF Len(categories) = 0 THEN acc
    ELSE DedupeLoop(DedupeStep(acc, Head(categories)), Tail(categories))

dedupeCategoriesByName(categories) ==
    LET acc == DedupeLoop([canonicalByKey |-> << >>, idRemap |-> EmptyMap],
                          categories)
    IN  [categories |->
             [i \in 1..Len(acc.canonicalByKey) |-> acc.canonicalByKey[i].value],
         idRemap |-> acc.idRemap]

\* `card.syncStatus === 'synced' ? 'pending' : (card.syncStatus ?? 'pending')`
RemappedStatus(syncStatus) ==
    IF syncStatus = "synced" THEN "pending"
    ELSE IF syncStatus = "undefined" THEN "pending"
    ELSE syncStatus

RemapCard(card, idRemap, dateNow) ==
    IF card.categoryId \notin DOMAIN idRemap
       \/ idRemap[card.categoryId] = card.categoryId
    THEN card
    ELSE [card EXCEPT !.categoryId = idRemap[card.categoryId],
                      !.updatedAt = dateNow,
                      !.syncStatus = RemappedStatus(card.syncStatus)]

remapCardsCategoryIds(cards, idRemap, dateNow) ==
    IF DOMAIN idRemap = {} THEN cards
    ELSE [i \in 1..Len(cards) |-> RemapCard(cards[i], idRemap, dateNow)]


(***************************************************************************)
(* State.                                                                  *)
(***************************************************************************)
VARIABLES
    now,                \* Date.now()
    mountOnline,        \* navigator.onLine when the hook was mounted
    syncState,          \* useState<SyncState>
    syncInProgress,     \* useRef(false)
    retryBlockedUntil,  \* useRef(0)
    storeCategories,    \* Local Store, key all_categories
    storeCards,         \* Local Store, key all_cards
    categories,         \* the facade's React state
    cards,              \* the facade's React state
    remoteCategories,   \* remote table categories (rows of the owner)
    remoteFlashcards,   \* remote table flashcards (rows of the owner)
    push,               \* the invocations of syncToCloud, by slot
    pull,               \* the invocation of pullFromCloud
    pushReturned,       \* what the last syncToCloud call returned
    pullReturned,       \* what the last pullFromCloud call returned, by slot
    lastTransientAt,    \* history: when a push last failed transiently
    mutations,          \* history: facade mutations so far
    failures,           \* history: requests and store accesses failed so far
    argA, argB, result, stage,  \* inputs and output of a pure function
    full,               \* the invocation of fullSync
    fullReturned,       \* what the last fullSync call returned
    lastOp,             \* history: the last facade mutation and what it found
    timer,              \* cloudSyncTimer: useRef<number | null>(null)
    hasUnseenMigration, \* module variable of useOfflineStorage.ts
    reads,              \* the invocations of getAllCategories, by slot
    crypto,             \* whether crypto.randomUUID exists; ids it has given
    notice,             \* history: migrations and consumeMigrationNotice calls
    idb,                \* the database, ensureStoresPromise, the stored keys
    access,             \* the call of the storage layer in progress
    triggers            \* the refs of useFlashcards and its callers of a sync

engineVars ==
    << now, mountOnline, syncState, syncInProgress, retryBlockedUntil,
       storeCategories, storeCards, categories, cards, remoteCategories,
       remoteFlashcards, push, pull, pushReturned, pullReturned,
       lastTransientAt, mutations, failures >>

pureVars == << argA, argB, result, stage >>

fullVars == << full, fullReturned >>

facadeAux == << lastOp, timer >>

\* what the engine's own steps leave alone
storeLayerVars == << hasUnseenMigration, reads, crypto, notice, idb, access >>

storageVars == << storeLayerVars, triggers >>

otherVars == << pureVars, fullVars, facadeAux, storageVars >>

vars == << engineVars, pureVars, fullVars, facadeAux, storageVars >>

Slots == {1, 2}

\* the slots of the invocations of pullFromCloud
PullSlots == {1, 2}

\* the slot of the pull where one caller pulls at a time
PullSlot == 1

\* ids crypto.randomUUID() can return
CategoryIds == {"c1", "c2"}
CardIds == {"f1"}

\* messages of the errors the remote answers with
RemoteErrors == {"Failed to fetch", "permission denied for table"}

\* Date.prototype.toISOString and new Date(iso).getTime(): the ISO text of a
\* millisecond count, and back.
toISOString(ms) == [iso |-> ms]
getTime(date) == date.iso

\* What a call returned, with its history: the slot of the call; whether,
\* when it was made, another push was in flight (busy), its closure saw the
\* device online, the cooldown deadline was ahead (blocked), a push had failed
\* transiently less than the cooldown ago (cooling); the await it failed at, the
\* kinds of rows it marked synced in the Local Store, the versions it
\* marked synced that no acknowledged batch of it carried, and the kinds of
\* rows it issued an upsert for.
NoResult == [slot |-> 0, success |-> TRUE, error |-> "none", busy |-> FALSE,
             online |-> TRUE, blocked |-> FALSE, cooling |-> FALSE,
             failedAt |-> "none", markedKinds |-> {}, unacked |-> {},
             issuedKinds |-> {}, thrown |-> "none", storeFailed |-> {}]

IdlePush ==
    [pc |-> "idle", pendingCards |-> << >>, pendingCategories |-> << >>,
     rows |-> << >>, index |-> 0, all |-> << >>,
     called |-> NoResult, acked |-> {}, marked |-> {}, issued |-> {}]

IdleFull == [pc |-> "idle", slot |-> 0, online |-> TRUE, pulls |-> 0]

\* What a fullSync call returned: its result, the result of its push, and
\* how many times it called pullFromCloud.
NoFullResult == [result |-> NoResult, push |-> NoResult, pulls |-> 0]

\* no facade mutation yet
NoOp == [op |-> "none", arg |-> << >>, categories |-> << >>, cards |-> << >>,
         at |-> 0]

\* null in cloudSyncTimer.current
NoHandle == [id |-> 0, at |-> 0, online |-> FALSE]

\* cloudSyncTimer.current (ref), the timeouts of the window that are pending,
\* and as history when scheduleCloudSync last set one and how many fired
NoTimer == [ref |-> NoHandle, pending |-> {}, scheduledAt |-> Undefined,
            cancels |-> 0, fires |-> 0, fired |-> NoHandle]

\* the slots of the invocations of getAllCategories
Readers == {1, 2}

\* no invocation of getAllCategories in this slot
IdleRead == [pc |-> "idle", categories |-> << >>, categoryIdMap |-> << >>,
             migratedCategories |-> << >>, cards |-> << >>,
             hasLegacyCards |-> FALSE, migratedCards |-> << >>,
             returned |-> << >>, migrated |-> FALSE, failed |-> {}]

\* nothing migrated, consumeMigrationNotice never called
NoNotice == [reads |-> 0, migrations |-> 0, unseen |-> 0, calls |-> 0,
             returned |-> << >>, accessFailures |-> 0]

\* useOfflineStorage.ts:6
REQUIRED_STORES == {"flashcards", "categories", "images", "settings"}

\* lines 132-136
STORAGE_KEYS == {"all_cards", "all_categories", "app_settings"}

\* lines 144-151
DEFAULT_SETTINGS ==
    [autoPlayAudio |-> TRUE, voiceSpeed |-> "normal", repeatAudio |-> FALSE,
     theme |-> "sunshine", enableCloudSync |-> FALSE]

\* no error
NoError == [isError |-> FALSE, message |-> ""]

\* the database with every object store and every key, the stores ensured
ProvisionedDatabase ==
    [objectStoreNames |-> REQUIRED_STORES, ensureStoresPromise |-> "resolved",
     keys |-> STORAGE_KEYS, settings |-> DEFAULT_SETTINGS,
     notFound |-> "", failures |-> 0]

\* no call of the storage layer in progress
NoAccess ==
    [fn |-> "none", pc |-> "idle", phase |-> "none", argument |-> << >>,
     runs |-> 0, recoveries |-> 0, caught |-> NoError, reprovisioned |-> FALSE,
     error |-> NoError, value |-> << >>, failed |-> FALSE,
     returned |-> << >>, thrown |-> NoError]

\* useFlashcards.ts:57-62 as the hook is created: nothing loaded, no
\* hydration, no auto-sync and no fullSync of the button under way
NoTriggers ==
    [initialized |-> FALSE, cloudHydrationInProgress |-> FALSE,
     cloudHydrationBlockedUntil |-> 0, autoSyncInProgress |-> FALSE,
     lastAutoSyncAt |-> 0, hydrate |-> "idle", attempt |-> 0,
     auto |-> "idle", button |-> "idle", events |-> 0, presses |-> 0]

\* no read of the categories in flight, the module variable as initialised
\* (useOfflineStorage.ts:138), crypto.randomUUID available
StorageIdle ==
    /\ hasUnseenMigration = FALSE
    /\ reads = [r \in Readers |-> IdleRead]
    /\ crypto = [randomUUID |-> TRUE, generated |-> 0]
    /\ notice = NoNotice
    /\ idb = ProvisionedDatabase
    /\ access = NoAccess
    /\ triggers = NoTriggers

FullIdle ==
    /\ full = IdleFull
    /\ fullReturned = NoFullResult
    /\ lastOp = NoOp
    /\ timer = NoTimer
    /\ StorageIdle

\* useOfflineStorage.ts:140: createDefaultCategories(), one template of the six
DEFAULT_CATEGORIES ==
    << [id |-> "00000000-0000-4000-8000-0000000000d1", name |-> "Animals",
        order |-> 0, createdAt |-> 0, updatedAt |-> 0,
        syncStatus |-> "pending"] >>

\* useOfflineStorage.ts:142
DEFAULT_CARDS == << >>

IdlePull ==
    [pc |-> "idle", remoteCategories |-> << >>, remoteCards |-> << >>,
     offset |-> 0, localCategories |-> << >>, localCards |-> << >>,
     dedupedCategories |-> << >>, remappedCards |-> << >>,
     storeFailed |-> {}]

Filter(items, status) ==
    LET RECURSIVE F(_)
        F(xs) == IF Len(xs) = 0 THEN << >>
                 ELSE IF Head(xs).syncStatus = status
                      THEN << Head(xs) >> \o F(Tail(xs))
                      ELSE F(Tail(xs))
    IN  F(items)

IdsOf(items) == {items[i].id : i \in 1..Len(items)}

\* storage.getPendingCards / getPendingCategories
getPending(stored) == Filter(stored, "pending")

\* updatePendingCount
PendingCount(storedCards, storedCategories) ==
    Len(getPending(storedCards)) + Len(getPending(storedCategories))

\* One row of upsert(batch, { onConflict: 'id' }) on a remote table: a new id
\* is inserted with created_at defaulting to the server's now(); an existing
\* row is updated, and the BEFORE UPDATE trigger sets its updated_at to now().
UpsertRow(table, row, serverNow) ==
    LET i == MapIndex(table, row.id)
    IN  IF i = 0
        THEN Append(table, [created_at |-> toISOString(serverNow)] @@ row)
        ELSE [table EXCEPT ![i] =
                  [created_at |-> table[i].created_at]
                      @@ [row EXCEPT !.updated_at = toISOString(serverNow)]]

RECURSIVE Upsert(_, _, _)
Upsert(table, batch, serverNow) ==
    IF Len(batch) = 0 THEN table
    ELSE Upsert(UpsertRow(table, Head(batch), serverNow), Tail(batch),
                serverNow)


(***************************************************************************)
(* Sync Engine: syncToCloud (push).                                        *)
(***************************************************************************)
InFlight(p) == push[p].pc # "idle"

\* The guards of syncToCloud without the single-flight test.
PushGuardNoSingleFlight(online, dateNow, blockedUntil, inProgress) ==
    IF ~online THEN "Device is offline"
    ELSE IF dateNow < blockedUntil THEN TemporarilyUnavailable
    ELSE "none"

\* The guards of syncToCloud, in the order of the source: the error the call
\* returns, "none" when the call passes them.  `online` is the value of
\* syncState.isOnline the callback closed over.
PushGuard(online, dateNow, blockedUntil, inProgress) ==
    IF ~online THEN "Device is offline"
    ELSE IF dateNow < blockedUntil THEN TemporarilyUnavailable
    ELSE IF inProgress THEN "Sync already in progress"
    ELSE "none"

CategoryRow(cat, dateNow) ==
    [id |-> cat.id, name |-> cat.name,
     updated_at |-> toISOString(IF TimeOf(cat) = 0 THEN dateNow ELSE TimeOf(cat))]

CardRow(card, dateNow) ==
    [id |-> card.id, category_id |-> card.categoryId,
     updated_at |-> toISOString(IF TimeOf(card) = 0 THEN dateNow ELSE TimeOf(card))]

\* `pendingCategories.map(...)` / `pendingCards.map(...)`
CategoryRows(items, dateNow) ==
    [i \in 1..Len(items) |-> CategoryRow(items[i], dateNow)]

CardRows(items, dateNow) ==
    [i \in 1..Len(items) |-> CardRow(items[i], dateNow)]

\* `allCategories.map(cat => ({ ...cat, syncStatus: 'synced' }))`
MarkAllSynced(items) == [i \in 1..Len(items) |-> [items[i] EXCEPT !.syncStatus = "synced"]]

\* The versions <<kind, id, updatedAt>> a batch of rows carries.
VersionsOf(kind, batch) ==
    {<<kind, batch[i].id, getTime(batch[i].updated_at)>> : i \in 1..Len(batch)}

\* The versions whose stored syncStatus a write of `after` over `before`
\* turns from pending to synced.
NewlySynced(kind, before, after) ==
    {<<kind, after[i].id, after[i].updatedAt>> : i \in
        {i \in 1..Len(after) :
            /\ after[i].syncStatus = "synced"
            /\ \E j \in 1..Len(before) :
                  /\ before[j].id = after[i].id
                  /\ before[j].syncStatus = "pending"}}

\* The locals of a call that returned are gone.
Returned(call) == IdlePush

\* A call that returns leaves the single-flight guard as it found it.
HeldGuard(guard) == guard

\* lines 339-341: finally { syncInProgress.current = false }
ReleasedGuard(guard) == FALSE

\* The call returns: the finally block releases the single-flight guard.
PushReturn(p, call, success, error, failedAt) ==
    /\ pushReturned' =
           [call.called EXCEPT !.success = success, !.error = error,
            !.failedAt = failedAt,
            !.markedKinds = {v[1] : v \in call.marked},
            !.unacked = call.marked \ call.acked,
            !.issuedKinds = call.issued]
    /\ syncInProgress' = ReleasedGuard(syncInProgress)

\* A failed batch ends the call with the stored rows all marked synced.
StoredAfterFailedBatchMarked(stored) == MarkAllSynced(stored)

\* lines 266-269, 298-301: a failed batch throws before any write of the
\* Local Store; the stored list stays what it was.
StoredAfterFailedBatch(stored) == stored

\* lines 313-325: the push succeeded.
PushSucceed(p, nextPush) ==
    /\ syncState' = [syncState EXCEPT !.isSyncing = FALSE,
                                      !.lastSyncedAt = now,
                                      !.pendingChanges = 0]
    /\ retryBlockedUntil' = 0
    /\ push' = [push EXCEPT ![p] = Returned(nextPush)]
    /\ PushReturn(p, nextPush, TRUE, "none", "none")
    /\ lastTransientAt' = Undefined

\* lines 326-341: the catch block.
PushCatch(p, message, newlySynced) ==
    LET normalizedMessage == normalizeSyncErrorMessage(message)
        call == [push[p] EXCEPT !.marked = @ \cup newlySynced]
    IN  /\ retryBlockedUntil' =
               CooldownAfterFailure(normalizedMessage, retryBlockedUntil, now)
        /\ syncState' = [syncState EXCEPT !.isSyncing = FALSE]
        /\ PushReturn(p, [call EXCEPT !.called.thrown = message], FALSE,
                      normalizedMessage, push[p].pc)
        /\ push' = [push EXCEPT ![p] = Returned(push[p])]
        /\ lastTransientAt' =
               IF isTransientNetworkError(message) THEN now ELSE lastTransientAt

\* lines 281-302: the flashcard phase starts, or the push is done.
PushStartCards(p, nextPush) ==
    IF Len(nextPush.pendingCards) > 0
    THEN /\ push' = [push EXCEPT ![p] =
                 [nextPush EXCEPT !.pc = "upsertCards", !.index = 0,
                      !.issued = @ \cup {"flashcard"},
                      !.rows = CardRows(nextPush.pendingCards, now)]]
         /\ UNCHANGED << syncState, retryBlockedUntil, pushReturned,
                         syncInProgress, lastTransientAt >>
    ELSE PushSucceed(p, nextPush)

\* lines 217-237: a call of syncToCloud from a closure that saw `online`;
\* `state` is syncState with the updates queued before the call applied.
SyncToCloud(p, online, state) ==
    /\ ~InFlight(p)
    /\ LET error == PushGuard(online, now, retryBlockedUntil, syncInProgress)
           busy == \E q \in Slots : InFlight(q)
           called == [NoResult EXCEPT !.slot = p, !.busy = busy,
                          !.online = online, !.blocked = now < retryBlockedUntil,
                          !.cooling = /\ lastTransientAt # Undefined
                                      /\ now < lastTransientAt
                                               + TRANSIENT_FAILURE_COOLDOWN_MS]
       IN  IF error # "none"
           THEN /\ pushReturned' =
                       [called EXCEPT !.success = FALSE, !.error = error,
                                      !.failedAt = "guard"]
                /\ syncState' = state
                /\ UNCHANGED << syncInProgress, push >>
           ELSE /\ syncInProgress' = TRUE
                /\ syncState' = [state EXCEPT !.isSyncing = TRUE]
                /\ push' = [push EXCEPT ![p] =
                       [IdlePush EXCEPT !.pc = "getSession", !.called = called]]
                /\ pushReturned' =
                       [called EXCEPT !.error = "in flight"]
    /\ UNCHANGED << now, mountOnline, retryBlockedUntil, storeCategories,
                    storeCards, categories, cards, remoteCategories,
                    remoteFlashcards, pull, pullReturned, lastTransientAt,
                    mutations, failures >>

\* The callers whose closure is the one of the current render (the facade's
\* exported syncToCloud, fullSync).
PushCall(p) ==
    /\ SyncToCloud(p, syncState.isOnline, syncState)
    /\ UNCHANGED otherVars

\* lines 151-157: the window's online event.  The effect has no dependencies,
\* so the handler calls the syncToCloud of the first render, whose closure
\* holds the isOnline of the mount.
HandleOnline(p) ==
    /\ syncState.isOnline = FALSE
    /\ SyncToCloud(p, mountOnline, [syncState EXCEPT !.isOnline = TRUE])
    /\ UNCHANGED otherVars

\* lines 159-161: the window's offline event.
HandleOffline ==
    /\ syncState.isOnline = TRUE
    /\ syncState' = [syncState EXCEPT !.isOnline = FALSE]
    /\ UNCHANGED << now, mountOnline, syncInProgress, retryBlockedUntil,
                    storeCategories, storeCards, categories, cards,
                    remoteCategories, remoteFlashcards, push, pull,
                    pushReturned, pullReturned, lastTransientAt, mutations,
                    failures >>
    /\ UNCHANGED otherVars

pushFrame ==
    /\ UNCHANGED << now, mountOnline, categories, cards, pull, pullReturned,
                    mutations >>
    /\ UNCHANGED otherVars

\* A call that finds no user returns with syncState as it is.
SignedOutStillSyncing(state) == state

\* lines 242 and 364: setSyncState(prev => ({ ...prev, isSyncing: false }))
\* before the return of 'Please sign in to sync'.
SignedOut(state) == [state EXCEPT !.isSyncing = FALSE]

\* lines 239-244: getSession resolves.
PushGetSession(p) ==
    /\ push[p].pc = "getSession"
    /\ \E user \in BOOLEAN :
          IF ~user
          THEN /\ syncState' = SignedOut(syncState)
               /\ push' = [push EXCEPT ![p] = Returned(push[p])]
               /\ PushReturn(p, push[p], FALSE, "Please sign in to sync",
                             "getSession")
               /\ UNCHANGED << retryBlockedUntil, lastTransientAt >>
          ELSE /\ push' = [push EXCEPT ![p].pc = "getPendingCards"]
               /\ UNCHANGED << syncState, syncInProgress, pushReturned,
                               retryBlockedUntil, lastTransientAt >>
    /\ UNCHANGED << storeCategories, storeCards, remoteCategories,
                    remoteFlashcards, failures >>
    /\ pushFrame

\* line 246: storage.getPendingCards() resolves.
PushGetPendingCards(p) ==
    /\ push[p].pc = "getPendingCards"
    /\ push' = [push EXCEPT ![p].pendingCards = getPending(storeCards),
                            ![p].pc = "getPendingCategories"]
    /\ UNCHANGED << syncState, syncInProgress, pushReturned, retryBlockedUntil,
                    lastTransientAt, storeCategories, storeCards,
                    remoteCategories, remoteFlashcards, failures >>
    /\ pushFrame

\* lines 247-264: storage.getPendingCategories() resolves; the first category
\* batch is sent, or the flashcard phase starts.
PushGetPendingCategories(p) ==
    /\ push[p].pc = "getPendingCategories"
    /\ LET pendingCategories == getPending(storeCategories)
           nextPush == [push[p] EXCEPT !.pendingCategories = pendingCategories]
       IN  IF Len(pendingCategories) > 0
           THEN /\ push' = [push EXCEPT ![p] =
                       [nextPush EXCEPT !.pc = "upsertCategories", !.index = 0,
                            !.issued = @ \cup {"category"},
                            !.rows = CategoryRows(pendingCategories, now)]]
                /\ UNCHANGED << syncState, retryBlockedUntil, pushReturned,
                                syncInProgress, lastTransientAt >>
           ELSE PushStartCards(p, nextPush)
    /\ UNCHANGED << storeCategories, storeCards, remoteCategories,
                    remoteFlashcards, failures >>
    /\ pushFrame

\* The category loop ends after its first batch.
AfterFirstCategoryBatch(nextIndex, rows) == "getAllCategories"

\* lines 261-273: the loop over categoryBatches sends the next batch, or is
\* done.
AfterCategoryBatch(nextIndex, rows) ==
    IF nextIndex < Len(rows) THEN "upsertCategories" ELSE "getAllCategories"

\* lines 260-261, 292-293: the batch of chunkArray(rows, SYNC_BATCH_SIZE)
\* that the loop sends when `index` rows went out in the batches before it.
BatchAt(rows, index) ==
    LET batches == chunkArray(rows, SYNC_BATCH_SIZE)
        k == (index \div SYNC_BATCH_SIZE) + 1
    IN  IF k <= Len(batches) THEN batches[k] ELSE << >>

\* lines 261-270: the upsert of one category batch resolves.
PushUpsertCategories(p) ==
    /\ push[p].pc = "upsertCategories"
    /\ LET batch == BatchAt(push[p].rows, push[p].index)
           nextIndex == push[p].index + SYNC_BATCH_SIZE
       IN  \/ /\ remoteCategories' = Upsert(remoteCategories, batch, now)
              /\ push' = [push EXCEPT
                     ![p].acked = @ \cup VersionsOf("category", batch),
                     ![p].index = nextIndex,
                     ![p].pc = AfterCategoryBatch(nextIndex, push[p].rows)]
              /\ UNCHANGED << syncState, retryBlockedUntil, pushReturned,
                              syncInProgress, lastTransientAt, failures,
                              storeCategories >>
           \/ /\ failures < MaxFailures
              /\ failures' = failures + 1
              /\ storeCategories' = StoredAfterFailedBatch(storeCategories)
              /\ \E message \in RemoteErrors :
                    PushCatch(p, "Category sync failed: " \o message,
                              NewlySynced("category", storeCategories,
                                          storeCategories'))
              /\ UNCHANGED remoteCategories
    /\ UNCHANGED << storeCards, remoteFlashcards >>
    /\ pushFrame

\* line 273: storage.getAllCategories() resolves.
PushGetAllCategories(p) ==
    /\ push[p].pc = "getAllCategories"
    /\ push' = [push EXCEPT ![p].all = storeCategories,
                            ![p].pc = "saveAllCategories"]
    /\ UNCHANGED << syncState, syncInProgress, pushReturned, retryBlockedUntil,
                    lastTransientAt, storeCategories, storeCards,
                    remoteCategories, remoteFlashcards, failures >>
    /\ pushFrame

\* lines 274-279: storage.saveAllCategories(updatedCategories) resolves.
PushSaveAllCategories(p) ==
    /\ push[p].pc = "saveAllCategories"
    /\ LET updatedCategories == MarkAllSynced(push[p].all)
           nextPush == [push[p] EXCEPT !.marked = @ \cup
                            NewlySynced("category", storeCategories,
                                        updatedCategories)]
       IN  /\ storeCategories' = updatedCategories
           /\ PushStartCards(p, nextPush)
    /\ UNCHANGED << storeCards, remoteCategories, remoteFlashcards, failures >>
    /\ pushFrame

\* lines 293-302: the upsert of one flashcard batch resolves.
PushUpsertCards(p) ==
    /\ push[p].pc = "upsertCards"
    /\ LET batch == BatchAt(push[p].rows, push[p].index)
           nextIndex == push[p].index + SYNC_BATCH_SIZE
       IN  \/ /\ remoteFlashcards' = Upsert(remoteFlashcards, batch, now)
              /\ push' = [push EXCEPT
                     ![p].acked = @ \cup VersionsOf("flashcard", batch),
                     ![p].index = nextIndex,
                     ![p].pc = IF nextIndex < Len(push[p].rows)
                               THEN "upsertCards" ELSE "getAllCards"]
              /\ UNCHANGED << syncState, retryBlockedUntil, pushReturned,
                              syncInProgress, lastTransientAt, failures,
                              storeCards >>
           \/ /\ failures < MaxFailures
              /\ failures' = failures + 1
              /\ storeCards' = StoredAfterFailedBatch(storeCards)
              /\ \E message \in RemoteErrors :
                    PushCatch(p, "Flashcard sync failed: " \o message,
                              NewlySynced("flashcard", storeCards, storeCards'))
              /\ UNCHANGED remoteFlashcards
    /\ UNCHANGED << storeCategories, remoteCategories >>
    /\ pushFrame

\* line 305: storage.getAllCards() resolves.
PushGetAllCards(p) ==
    /\ push[p].pc = "getAllCards"
    /\ push' = [push EXCEPT ![p].all = storeCards, ![p].pc = "saveAllCards"]
    /\ UNCHANGED << syncState, syncInProgress, pushReturned, retryBlockedUntil,
                    lastTransientAt, storeCategories, storeCards,
                    remoteCategories, remoteFlashcards, failures >>
    /\ pushFrame

\* lines 306-325: storage.saveAllCards(updatedCards) resolves and the push
\* returns its success.
PushSaveAllCards(p) ==
    /\ push[p].pc = "saveAllCards"
    /\ LET updatedCards == MarkAllSynced(push[p].all)
           nextPush == [push[p] EXCEPT !.marked = @ \cup
                            NewlySynced("flashcard", storeCards, updatedCards)]
       IN  /\ storeCards' = updatedCards
           /\ PushSucceed(p, nextPush)
    /\ UNCHANGED << storeCategories, remoteCategories, remoteFlashcards,
                    failures >>
    /\ pushFrame


(***************************************************************************)
(* Data Facade (useFlashcards).                                            *)
(***************************************************************************)
CreatedOf(cat) == IF cat.createdAt = Undefined THEN 0 ELSE cat.createdAt

\* the comparator of sortCategories: a is strictly before b.  A category
\* without an order counts as Number.MAX_SAFE_INTEGER, above every order.
SortsBefore(a, b) ==
    IF a.order = Undefined /\ b.order = Undefined
    THEN CreatedOf(a) < CreatedOf(b)
    ELSE IF a.order = Undefined THEN FALSE
    ELSE IF b.order = Undefined THEN TRUE
    ELSE IF a.order # b.order THEN a.order < b.order
    ELSE CreatedOf(a) < CreatedOf(b)

\* Array.prototype.sort is stable: an item goes behind the items that do not
\* sort after it.
RECURSIVE InsertSorted(_, _)
InsertSorted(sorted, item) ==
    IF Len(sorted) = 0 THEN << item >>
    ELSE IF SortsBefore(item, sorted[Len(sorted)])
         THEN Append(InsertSorted(SubSeq(sorted, 1, Len(sorted) - 1), item),
                     sorted[Len(sorted)])
         ELSE Append(sorted, item)

RECURSIVE SortInto(_, _)
SortInto(sorted, items) ==
    IF Len(items) = 0 THEN sorted
    ELSE SortInto(InsertSorted(sorted, Head(items)), Tail(items))

sortCategories(items) == SortInto(<< >>, items)

\* names the user types
FacadeNames == {"Animals"}

\* ids in use: crypto.randomUUID() returns none of them
UsedIds ==
    IdsOf(categories) \cup IdsOf(storeCategories) \cup IdsOf(remoteCategories)
    \cup IdsOf(cards) \cup IdsOf(storeCards) \cup IdsOf(remoteFlashcards)
    \cup UNION {IdsOf(pull[q].remoteCategories) \cup IdsOf(pull[q].remoteCards) :
                 q \in PullSlots}

MaxOrder(items) ==
    LET RECURSIVE M(_, _)
        M(xs, max) == IF Len(xs) = 0 THEN max
                      ELSE M(Tail(xs), Max(max, IF Head(xs).order = Undefined
                                                THEN 0 - 1 ELSE Head(xs).order))
    IN  M(items, 0 - 1)

facadeFrame ==
    /\ mutations < MaxMutations
    /\ mutations' = mutations + 1
    /\ UNCHANGED << now, mountOnline, syncInProgress, retryBlockedUntil,
                    remoteCategories, remoteFlashcards, push, pull,
                    pushReturned, pullReturned, lastTransientAt, failures >>
    /\ UNCHANGED << pureVars, fullVars, storageVars >>

\* The write of the whole list to the Local Store, then updatePendingCount.
SaveCards(updatedCards) ==
    /\ cards' = updatedCards
    /\ storeCards' = updatedCards
    /\ syncState' = [syncState EXCEPT !.pendingChanges =
                         PendingCount(updatedCards, storeCategories)]
    /\ UNCHANGED << categories, storeCategories >>

SaveCategories(updatedCategories) ==
    /\ categories' = updatedCategories
    /\ storeCategories' = updatedCategories
    /\ syncState' = [syncState EXCEPT !.pendingChanges =
                         PendingCount(storeCards, updatedCategories)]
    /\ UNCHANGED << cards, storeCards >>

\* lines 217-240
AddCard(id, categoryId) ==
    /\ id \notin UsedIds
    /\ categoryId \in IdsOf(categories)
    /\ SaveCards(Append(cards, [id |-> id, categoryId |-> categoryId,
                                updatedAt |-> now, syncStatus |-> "pending"]))
    /\ facadeFrame

\* lines 242-257
UpdateCard(id) ==
    /\ id \in IdsOf(cards)
    /\ SaveCards([i \in 1..Len(cards) |->
           IF cards[i].id = id
           THEN [cards[i] EXCEPT !.updatedAt = now, !.syncStatus = "pending"]
           ELSE cards[i]])
    /\ facadeFrame

\* lines 269-292
AddCategory(id, name) ==
    /\ id \notin UsedIds
    /\ SaveCategories(Append(categories,
           [id |-> id, name |-> name, order |-> MaxOrder(categories) + 1,
            createdAt |-> now, updatedAt |-> now, syncStatus |-> "pending"]))
    /\ facadeFrame

\* lines 294-308
UpdateCategory(id, name) ==
    /\ id \in IdsOf(categories)
    /\ SaveCategories(sortCategories([i \in 1..Len(categories) |->
           IF categories[i].id = id
           THEN [categories[i] EXCEPT !.name = name, !.updatedAt = now,
                                      !.syncStatus = "pending"]
           ELSE categories[i]]))
    /\ facadeFrame

\* line 315: `cards.filter((card) => card.categoryId !== id)`
CascadeKeeps(card, id) == card.categoryId # id

\* `.filter((item) => item.id !== id)`
WithoutId(items, id) ==
    LET RECURSIVE F(_)
        F(xs) == IF Len(xs) = 0 THEN << >>
                 ELSE IF Head(xs).id # id
                      THEN << Head(xs) >> \o F(Tail(xs))
                      ELSE F(Tail(xs))
    IN  F(items)

\* line 315: the cards the deletion of category id keeps
CardsKept(items, id) ==
    LET RECURSIVE F(_)
        F(xs) == IF Len(xs) = 0 THEN << >>
                 ELSE IF CascadeKeeps(Head(xs), id)
                      THEN << Head(xs) >> \o F(Tail(xs))
                      ELSE F(Tail(xs))
    IN  F(items)

\* lines 259-267: deleteCard; storage.deleteCard filters the stored list
DeleteCard(id) ==
    /\ cards' = WithoutId(cards, id)
    /\ storeCards' = WithoutId(storeCards, id)
    /\ syncState' = [syncState EXCEPT !.pendingChanges =
                         PendingCount(storeCards', storeCategories)]
    /\ UNCHANGED << categories, storeCategories >>
    /\ facadeFrame

\* lines 310-324: deleteCategory
DeleteCategory(id) ==
    /\ LET updatedCategories ==
               sortCategories(WithoutId(categories, id))
           updatedCards == CardsKept(cards, id)
       IN  /\ categories' = updatedCategories
           /\ cards' = updatedCards
           /\ storeCategories' = updatedCategories
           /\ storeCards' = updatedCards
           /\ syncState' = [syncState EXCEPT !.pendingChanges =
                                PendingCount(updatedCards, updatedCategories)]
    /\ facadeFrame

\* the position of id in categoryIds, 0 when it is not listed
PositionIn(categoryIds, id) ==
    IF \E i \in 1..Len(categoryIds) : categoryIds[i] = id
    THEN CHOOSE i \in 1..Len(categoryIds) : categoryIds[i] = id
    ELSE 0

\* Orders count from one.
OneBasedOrder(position) == position

\* line 328: `categoryIds.map((id, index) => [id, index])`
NextOrder(position) == position - 1

\* lines 326-349: reorderCategories
ReorderCategories(categoryIds) ==
    /\ SaveCategories(sortCategories([i \in 1..Len(categories) |->
           IF PositionIn(categoryIds, categories[i].id) = 0
           THEN categories[i]
           ELSE [categories[i] EXCEPT
                     !.order = NextOrder(PositionIn(categoryIds,
                                                            categories[i].id)),
                     !.updatedAt = now, !.syncStatus = "pending"]]))
    /\ facadeFrame

\* The timeout is left pending.
ClearTimeoutForgotten(pending, ref) == pending

\* lines 124-126: window.clearTimeout(cloudSyncTimer.current)
ClearTimeout(pending, ref) == pending \ {ref}

\* lines 119-132: scheduleCloudSync, called when the save has resolved, by a
\* closure that saw `online`; the timeout is known by the number of the
\* mutation that set it.
ScheduleCloudSync(online) ==
    IF ~online
    THEN timer' = timer
    ELSE LET handle == [id |-> mutations + 1, at |-> now + SYNC_DEBOUNCE_MS,
                        online |-> online]
         IN  timer' = [timer EXCEPT
                 !.pending = ClearTimeout(timer.pending, timer.ref)
                                 \cup {handle},
                 !.ref = handle,
                 !.scheduledAt = now,
                 !.cancels = IF timer.ref = NoHandle THEN @ ELSE @ + 1]

\* the mutation and what it found in memory
Recorded(op, arg) ==
    lastOp' = [op |-> op, arg |-> arg, categories |-> categories,
               cards |-> cards, at |-> now]

\* lines 128-131: the timeout fires; its callback clears the ref and calls
\* the syncToCloud its closure holds.
TimerFire(p) ==
    \E handle \in timer.pending :
        /\ now >= handle.at
        /\ timer' = [timer EXCEPT !.pending = @ \ {handle},
                                  !.ref = NoHandle, !.fires = @ + 1,
                                  !.fired = handle]
        /\ SyncToCloud(p, handle.online, syncState)
        /\ UNCHANGED << pureVars, fullVars, lastOp, storageVars >>

\* Date.now() advances; a timeout fires when it is due.
FacadeTick ==
    /\ now < MaxFacadeClock
    /\ \A handle \in timer.pending : now < handle.at
    /\ now' = now + 1
    /\ UNCHANGED << mountOnline, syncState, syncInProgress, retryBlockedUntil,
                    storeCategories, storeCards, categories, cards,
                    remoteCategories, remoteFlashcards, push, pull,
                    pushReturned, pullReturned, lastTransientAt, mutations,
                    failures >>
    /\ UNCHANGED otherVars

(***************************************************************************)
(* The engine's specification.                                             *)
(***************************************************************************)
\* Date.now() advances.
Tick ==
    /\ now < MaxClock
    /\ now' = now + 1
    /\ UNCHANGED << mountOnline, syncState, syncInProgress, retryBlockedUntil,
                    storeCategories, storeCards, categories, cards,
                    remoteCategories, remoteFlashcards, push, pull,
                    pushReturned, pullReturned, lastTransientAt, mutations,
                    failures >>
    /\ UNCHANGED otherVars

\* The Local Store after the first run seeded it (createDefaultCategories):
\* a pending default category.
SeededCategories ==
    << [id |-> "c1", name |-> "Animals", order |-> 0, createdAt |-> 1,
        updatedAt |-> 1, syncStatus |-> "pending"] >>

PureIdle ==
    /\ argA = << >>
    /\ argB = << >>
    /\ result = << >>
    /\ stage = "none"

EngineInit ==
    /\ now = 1
    /\ mountOnline \in BOOLEAN
    /\ syncState = [lastSyncedAt |-> Undefined, isSyncing |-> FALSE,
                    isOnline |-> mountOnline,
                    pendingChanges |-> PendingCount(<< >>, SeededCategories)]
    /\ syncInProgress = FALSE
    /\ retryBlockedUntil = 0
    /\ storeCategories = SeededCategories
    /\ storeCards = << >>
    /\ categories = SeededCategories
    /\ cards = << >>
    /\ remoteCategories = << >>
    /\ remoteFlashcards = << >>
    /\ push = [p \in Slots |-> IdlePush]
    /\ pull = [q \in PullSlots |-> IdlePull]
    /\ pushReturned = NoResult
    /\ pullReturned = [q \in PullSlots |-> NoResult]
    /\ lastTransientAt = Undefined
    /\ mutations = 0
    /\ failures = 0
    /\ FullIdle

Init == EngineInit /\ PureIdle

Next ==
    \/ Tick
    \/ HandleOffline
    \/ \E p \in Slots : HandleOnline(p)
    \/ \E p \in Slots : PushCall(p)
    \/ \E p \in Slots : PushGetSession(p)
    \/ \E p \in Slots : PushGetPendingCards(p)
    \/ \E p \in Slots : PushGetPendingCategories(p)
    \/ \E p \in Slots : PushUpsertCategories(p)
    \/ \E p \in Slots : PushGetAllCategories(p)
    \/ \E p \in Slots : PushSaveAllCategories(p)
    \/ \E p \in Slots : PushUpsertCards(p)
    \/ \E p \in Slots : PushGetAllCards(p)
    \/ \E p \in Slots : PushSaveAllCards(p)
    \/ /\ \E id \in CardIds, categoryId \in CategoryIds :
              AddCard(id, categoryId)
       /\ UNCHANGED facadeAux
    \/ /\ \E id \in CardIds : UpdateCard(id)
       /\ UNCHANGED facadeAux
    \/ /\ \E id \in CategoryIds, name \in FacadeNames : AddCategory(id, name)
       /\ UNCHANGED facadeAux
    \/ /\ \E id \in CategoryIds, name \in FacadeNames :
              UpdateCategory(id, name)
       /\ UNCHANGED facadeAux

Spec == Init /\ [][Next]_vars


(***************************************************************************)
(* Claims about the engine (checked under Spec).                           *)
(***************************************************************************)
PushesInFlight == {p \in Slots : InFlight(p)}

\* C1 as claimed: a syncToCloud call made while another push is in flight
\* returns 'Sync already in progress' and starts nothing, and at most one
\* push is past its guards.
C1_SingleFlight_AsClaimed ==
    /\ pushReturned.busy =>
          /\ pushReturned.error = "Sync already in progress"
          /\ ~InFlight(pushReturned.slot)
    /\ Cardinality(PushesInFlight) <= 1

\* C1, amended: a syncToCloud call made while another push is in flight is
\* rejected by a guard and issues no request (its slot stays idle); the error
\* is 'Device is offline' when its closure saw the device offline, else
\* 'temporarily unavailable' when the cooldown deadline is ahead, else 'Sync
\* already in progress'; and at most one push is past its guards.
C1_SingleFlight ==
    /\ pushReturned.busy =>
          /\ pushReturned.success = FALSE
          /\ pushReturned.failedAt = "guard"
          /\ ~InFlight(pushReturned.slot)
          /\ pushReturned.error =
                 IF ~pushReturned.online THEN "Device is offline"
                 ELSE IF pushReturned.blocked THEN TemporarilyUnavailable
                 ELSE "Sync already in progress"
    /\ Cardinality(PushesInFlight) <= 1

\* A call was rejected with 'Sync already in progress' while the other slot's
\* push waits for the remote's answer to a batch.
C1_Witness ==
    /\ pushReturned.busy
    /\ pushReturned.error = "Sync already in progress"
    /\ \E p \in Slots : push[p].pc = "upsertCategories"

\* C2 as claimed: a push called less than the cooldown after a push failed
\* with a transient-classified error (and with no successful push since), from
\* a closure that saw the device online, is rejected by the guards with the
\* 'temporarily unavailable' result; a push called when no cooldown applies,
\* online and with no other push in flight, passes the guards.
C2_Cooldown_AsClaimed ==
    /\ (pushReturned.cooling /\ pushReturned.online) =>
          /\ pushReturned.failedAt = "guard"
          /\ pushReturned.error = TemporarilyUnavailable
    /\ (pushReturned.slot # 0 /\ ~pushReturned.cooling /\ pushReturned.online
          /\ ~pushReturned.busy) => pushReturned.failedAt # "guard"

\* C5 as claimed: a push turns a stored row from pending to synced only if
\* the stored version (id, updatedAt) was in a batch the remote acknowledged
\* during that push.
C5_SyncedOnlyIfAcked_AsClaimed ==
    /\ pushReturned.unacked = {}
    /\ \A p \in Slots : push[p].marked \subseteq push[p].acked

\* C6 as claimed: a push that returns success = false has marked no row
\* synced in the Local Store.
C6_NoMarkOnFailure_AsClaimed ==
    pushReturned.success = FALSE => pushReturned.markedKinds = {}

\* C6, amended: a push that returns success = false has marked no flashcard
\* synced, and no category unless the failure was a flashcard batch (the
\* category batches were then all acknowledged).
C6_NoMarkOnFailure ==
    pushReturned.success = FALSE =>
        /\ "flashcard" \notin pushReturned.markedKinds
        /\ pushReturned.failedAt # "upsertCards" =>
               pushReturned.markedKinds = {}

\* A push failed at a flashcard batch after it marked the categories synced.
C6_Witness ==
    /\ pushReturned.success = FALSE
    /\ pushReturned.failedAt = "upsertCards"
    /\ pushReturned.markedKinds = {"category"}


\* C12: a push issues no flashcard upsert before every batch of its pending
\* categories was acknowledged, and a push that failed at a category batch
\* has issued no flashcard upsert.
C12_CategoriesFirst ==
    /\ \A p \in Slots :
          "flashcard" \in push[p].issued =>
              \A i \in 1..Len(push[p].pendingCategories) :
                  \E v \in push[p].acked :
                      /\ v[1] = "category"
                      /\ v[2] = push[p].pendingCategories[i].id
    /\ pushReturned.failedAt = "upsertCategories" =>
           "flashcard" \notin pushReturned.issuedKinds

\* A push sends its flashcards after two category batches were acknowledged.
C12_Witness ==
    \E p \in Slots :
        /\ push[p].pc = "upsertCards"
        /\ Len(push[p].pendingCategories) = 2
        /\ Cardinality({v \in push[p].acked : v[1] = "category"}) = 2

(***************************************************************************)
(* mergeData on inputs drawn from bounded sets.                            *)
(***************************************************************************)
InputTimes == {Undefined} \cup 1..MaxTime

\* the lists of at most n items of S with pairwise distinct ids
UniqueLists(S, n) ==
    UNION { {l \in [1..k -> S] :
                \A i, j \in 1..k : i # j => l[i].id # l[j].id} : k \in 0..n }

MergeIds == {"a", "b", "c"}

\* `from` tells the local items from the remote ones
MergeItems(side) ==
    [id : MergeIds, updatedAt : InputTimes, from : {side}]

pureFrame == UNCHANGED << engineVars, fullVars, facadeAux, storageVars >>

\* the engine at rest while a pure function is applied
EngineAtRest == EngineInit /\ mountOnline = TRUE

MergeInit ==
    /\ EngineAtRest
    /\ argA \in UniqueLists(MergeItems("local"), MaxLen)
    /\ argB \in UniqueLists(MergeItems("remote"), MaxLen)
    /\ result = << >>
    /\ stage = "input"

\* mergeData(local, remote)
MergeApply ==
    /\ stage = "input"
    /\ result' = mergeData(argA, argB)
    /\ stage' = "merged"
    /\ UNCHANGED << argA, argB >>
    /\ pureFrame

\* mergeData(mergeData(local, remote), remote)
MergeAgain ==
    /\ stage = "merged"
    /\ result' = mergeData(result, argB)
    /\ stage' = "merged again"
    /\ UNCHANGED << argA, argB >>
    /\ pureFrame

\* mergeData(X, X)
MergeSelf ==
    /\ stage = "input"
    /\ result' = mergeData(argA, argA)
    /\ stage' = "merged self"
    /\ UNCHANGED << argA, argB >>
    /\ pureFrame

MergeNext == MergeApply \/ MergeAgain \/ MergeSelf

SpecMerge == MergeInit /\ [][MergeNext]_vars

ItemOf(items, id) == items[MapIndex(items, id)]

ByIdAndTime(items) ==
    [i \in 1..Len(items) |-> << items[i].id, items[i].updatedAt >>]

\* C8: mergeData(mergeData(L, R), R) equals mergeData(L, R), and
\* mergeData(X, X) equals X, compared by id and updatedAt.
C8_MergeIdempotent ==
    /\ stage = "merged again" =>
           ByIdAndTime(result) = ByIdAndTime(mergeData(argA, argB))
    /\ stage = "merged self" => ByIdAndTime(result) = ByIdAndTime(argA)

\* The second merge ran on a result in which a remote item had replaced the
\* local one and another remote item had been added.
C8_Witness ==
    /\ stage = "merged again"
    /\ \E id \in IdsOf(argA) \cap IdsOf(argB) :
          ItemOf(result, id).from = "remote"
    /\ IdsOf(argB) \ IdsOf(argA) # {}
    /\ IdsOf(argA) \ IdsOf(argB) # {}


(***************************************************************************)
(* dedupeCategoriesByName on inputs drawn from bounded sets.               *)
(***************************************************************************)
DedupeIds == {"c1", "c2", "c3"}
DedupeNames == {"Animals", " animals ", "Food"}

DedupeItems ==
    [id : DedupeIds, name : DedupeNames, updatedAt : InputTimes,
     syncStatus : {"synced", "pending", "undefined"}]

DedupeInit ==
    /\ EngineAtRest
    /\ argA \in UniqueLists(DedupeItems, MaxLen)
    /\ argB = << >>
    /\ result = << >>
    /\ stage = "input"

\* dedupeCategoriesByName(categories)
DedupeApply ==
    /\ stage = "input"
    /\ result' = dedupeCategoriesByName(argA)
    /\ stage' = "deduped"
    /\ UNCHANGED << argA, argB >>
    /\ pureFrame

DedupeNext == DedupeApply

SpecDedupe == DedupeInit /\ [][DedupeNext]_vars

KeyOf(category) == normalizeCategoryName(category.name)
KeysOf(items) == {KeyOf(items[i]) : i \in 1..Len(items)}

\* m is strictly preferred to s: synced over not synced, then the greater
\* updatedAt
Outranks(m, s) ==
    \/ SyncedScore(m) > SyncedScore(s)
    \/ SyncedScore(m) = SyncedScore(s) /\ TimeOf(m) > TimeOf(s)

\* C9: dedupeCategoriesByName returns exactly one category per distinct
\* normalised name, a member of the input, and no member of its name group
\* is strictly preferred to it (synced first, then greater updatedAt).
C9_CanonicalSelection ==
    stage = "deduped" =>
        LET out == result.categories
        IN  /\ KeysOf(out) = KeysOf(argA)
            /\ Len(out) = Cardinality(KeysOf(argA))
            /\ \A i \in 1..Len(out) :
                  /\ \E j \in 1..Len(argA) : out[i] = argA[j]
                  /\ \A j \in 1..Len(argA) :
                        KeyOf(argA[j]) = KeyOf(out[i])
                            => ~Outranks(argA[j], out[i])

\* A group of three spellings of one name whose survivor is a synced member
\* that is not the most recent and not the first one.
C9_Witness ==
    /\ stage = "deduped"
    /\ Len(argA) = 3
    /\ Len(result.categories) = 1
    /\ \E i, j \in 1..3 :
          /\ argA[i].name # argA[j].name
          /\ result.categories[1] = argA[j]
          /\ j # 1
          /\ TimeOf(argA[i]) > TimeOf(argA[j])

\* C4: every input category absent from the output has an idRemap entry
\* whose value is the id of the surviving category of the same normalised
\* name, and that survivor is in the output.
C4_RemapComplete_AsClaimed ==
    stage = "deduped" =>
        \A j \in 1..Len(argA) :
            argA[j].id \notin IdsOf(result.categories) =>
                /\ argA[j].id \in DOMAIN result.idRemap
                /\ \E i \in 1..Len(result.categories) :
                      /\ KeyOf(result.categories[i]) = KeyOf(argA[j])
                      /\ result.idRemap[argA[j].id] = result.categories[i].id

(***************************************************************************)
(* remapCardsCategoryIds on inputs drawn from bounded sets.                *)
(***************************************************************************)
RemapCardIds == {"f1", "f2"}

RemapCards ==
    [id : RemapCardIds, categoryId : DedupeIds, updatedAt : {Undefined, 1},
     syncStatus : {"synced", "pending", "conflict", "undefined"}]

\* the Map<string, string> values over the category ids
IdRemaps == UNION { [keys -> DedupeIds] : keys \in SUBSET DedupeIds }

RemapInit ==
    /\ EngineAtRest
    /\ argA \in UniqueLists(RemapCards, MaxLen)
    /\ argB \in IdRemaps
    /\ result = << >>
    /\ stage = "input"

\* remapCardsCategoryIds(cards, idRemap), Date.now() being `now`
RemapApply ==
    /\ stage = "input"
    /\ result' = remapCardsCategoryIds(argA, argB, now)
    /\ stage' = "remapped"
    /\ UNCHANGED << argA, argB >>
    /\ pureFrame

RemapNext == RemapApply

SpecRemap == RemapInit /\ [][RemapNext]_vars

Rewritten(card, idRemap) ==
    /\ card.categoryId \in DOMAIN idRemap
    /\ idRemap[card.categoryId] # card.categoryId

\* C10 as stated: a card whose categoryId is a key of idRemap mapped to a
\* different id gets that id and syncStatus 'pending'; every other card is
\* returned unchanged.
C10_RemapStatus_AsClaimed ==
    stage = "remapped" =>
        /\ Len(result) = Len(argA)
        /\ \A i \in 1..Len(argA) :
              IF Rewritten(argA[i], argB)
              THEN /\ result[i].categoryId = argB[argA[i].categoryId]
                   /\ result[i].syncStatus = "pending"
              ELSE result[i] = argA[i]

(***************************************************************************)
(* Sync Engine: pullFromCloud.  One invocation at a time is followed; the  *)
(* function itself has no single-flight guard.                             *)
(***************************************************************************)
\* .order('updated_at', { ascending: false }): rows by decreasing updated_at,
\* rows of equal updated_at in table order
RECURSIVE InsertByUpdatedAtDesc(_, _)
InsertByUpdatedAtDesc(sorted, row) ==
    IF Len(sorted) = 0 THEN << row >>
    ELSE IF getTime(row.updated_at) > getTime(Head(sorted).updated_at)
         THEN << row >> \o sorted
         ELSE << Head(sorted) >> \o InsertByUpdatedAtDesc(Tail(sorted), row)

RECURSIVE OrderByUpdatedAtDesc(_)
OrderByUpdatedAtDesc(rows) ==
    IF Len(rows) = 0 THEN << >>
    ELSE InsertByUpdatedAtDesc(
             OrderByUpdatedAtDesc(SubSeq(rows, 1, Len(rows) - 1)),
             rows[Len(rows)])

\* the rows in every order
Reorderings(rows) ==
    LET n == Len(rows)
    IN  {[i \in 1..n |-> rows[f[i]]] :
            f \in {g \in [1..n -> 1..n] :
                      \A i, j \in 1..n : i # j => g[i] # g[j]}}

\* .order('updated_at', { ascending: false }): the select names no second
\* sort key, so rows of equal updated_at come in an order the server
\* chooses for each request.
OrdersByUpdatedAtDesc(rows) ==
    LET sorted == OrderByUpdatedAtDesc(rows)
    IN  {o \in Reorderings(rows) :
            \A i \in 1..Len(rows) : o[i].updated_at = sorted[i].updated_at}

\* .range(offset, offset + PULL_PAGE_SIZE - 1)
Range(rows, offset) == ChunkAt(rows, offset, PULL_PAGE_SIZE)

\* lines 413-421: a remote category row in the local shape; the row carries
\* no order
ConvertedCategory(cat) ==
    [id |-> cat.id, name |-> cat.name, order |-> Undefined,
     createdAt |-> getTime(cat.created_at),
     updatedAt |-> getTime(cat.updated_at), syncStatus |-> "synced"]

\* lines 423-431
ConvertedCard(card) ==
    [id |-> card.id, categoryId |-> card.category_id,
     updatedAt |-> getTime(card.updated_at), syncStatus |-> "synced"]

ConvertedCategories(rows) ==
    [i \in 1..Len(rows) |-> ConvertedCategory(rows[i])]

ConvertedCards(rows) == [i \in 1..Len(rows) |-> ConvertedCard(rows[i])]

PullResult(q, success, error, failedAt) ==
    [NoResult EXCEPT !.slot = q, !.success = success, !.error = error,
                     !.failedAt = failedAt, !.storeFailed = pull[q].storeFailed]

\* Whether an access of the Local Store by the pull fails; the storage layer
\* catches the failure (useOfflineStorage.ts:163-166, 172-174, 203-205,
\* 287-290).
StoreAccessFails == {b \in BOOLEAN : b => failures < MaxFailures}

\* lines 169-175, 200-206: saveAllCards / saveAllCategories resolve whether
\* or not the write was done.
StoredAfterSave(failed, stored, written) ==
    IF failed THEN stored ELSE written

pullFrame ==
    /\ UNCHANGED << now, mountOnline, syncInProgress, categories, cards,
                    remoteCategories, remoteFlashcards, push, pushReturned,
                    lastTransientAt, mutations >>
    /\ UNCHANGED otherVars

\* lines 346-359: the guards, then setSyncState and getSession is issued.
PullGuards(q, online) ==
    /\ pull[q].pc = "idle"
    /\ IF ~online
       THEN /\ pullReturned' = [pullReturned EXCEPT ![q] =
                      PullResult(q, FALSE, "Device is offline", "guard")]
            /\ UNCHANGED << pull, syncState >>
       ELSE IF now < retryBlockedUntil
       THEN /\ pullReturned' = [pullReturned EXCEPT ![q] =
                      PullResult(q, FALSE, TemporarilyUnavailable, "guard")]
            /\ UNCHANGED << pull, syncState >>
       ELSE /\ syncState' = [syncState EXCEPT !.isSyncing = TRUE]
            /\ pull' = [pull EXCEPT ![q] = [IdlePull EXCEPT !.pc = "getSession"]]
            /\ pullReturned' = [pullReturned EXCEPT ![q] =
                      PullResult(q, FALSE, "in flight", "none")]
    /\ UNCHANGED << retryBlockedUntil, storeCategories, storeCards, failures,
                    now, mountOnline, syncInProgress, remoteCategories,
                    remoteFlashcards, push, pushReturned, lastTransientAt,
                    mutations >>

\* pullFromCloud is called; it leaves the lists in memory alone
PullFromCloud(q, online) ==
    /\ PullGuards(q, online)
    /\ UNCHANGED << categories, cards >>

\* A caller whose closure is the one of the current render.
PullCall(q) ==
    /\ PullFromCloud(q, syncState.isOnline)
    /\ UNCHANGED otherVars

\* The catch stamps the failed pull as a sync.
AfterPullFailureStamped(state, dateNow) ==
    [state EXCEPT !.isSyncing = FALSE, !.lastSyncedAt = dateNow]

\* line 461: setSyncState(prev => ({ ...prev, isSyncing: false }))
AfterPullFailure(state, dateNow) == [state EXCEPT !.isSyncing = FALSE]

\* lines 447-459
PullCatch(q, message) ==
    LET normalizedMessage == normalizeSyncErrorMessage(message)
    IN  /\ retryBlockedUntil' =
               CooldownAfterFailure(normalizedMessage, retryBlockedUntil, now)
        /\ syncState' = AfterPullFailure(syncState, now)
        /\ pullReturned' = [pullReturned EXCEPT ![q] =
               [PullResult(q, FALSE, normalizedMessage, pull[q].pc)
                    EXCEPT !.thrown = message]]
        /\ pull' = [pull EXCEPT ![q] = IdlePull]

\* lines 361-366: getSession resolves.
PullGetSession(q) ==
    /\ pull[q].pc = "getSession"
    /\ \E user \in BOOLEAN :
          IF ~user
          THEN /\ syncState' = SignedOut(syncState)
               /\ pullReturned' = [pullReturned EXCEPT ![q] =
                      PullResult(q, FALSE, "Please sign in to sync",
                                 "getSession")]
               /\ pull' = [pull EXCEPT ![q] = IdlePull]
          ELSE /\ pull' = [pull EXCEPT ![q].pc = "selectCategories"]
               /\ UNCHANGED << syncState, pullReturned >>
    /\ UNCHANGED << retryBlockedUntil, storeCategories, storeCards, failures >>
    /\ pullFrame

\* lines 369-377: the select on categories resolves.
PullSelectCategories(q) ==
    /\ pull[q].pc = "selectCategories"
    /\ \/ /\ pull' = [pull EXCEPT ![q].remoteCategories = remoteCategories,
                                  ![q].offset = 0, ![q].pc = "selectCards"]
          /\ UNCHANGED << syncState, pullReturned, retryBlockedUntil,
                          failures >>
       \/ /\ failures < MaxFailures
          /\ failures' = failures + 1
          /\ \E message \in RemoteErrors :
                PullCatch(q, "Failed to fetch categories: " \o message)
    /\ UNCHANGED << storeCategories, storeCards >>
    /\ pullFrame

\* lines 389-407: one page of flashcards resolves.
PullSelectCards(q) ==
    /\ pull[q].pc = "selectCards"
    /\ \/ \E ordered \in OrdersByUpdatedAtDesc(remoteFlashcards) :
          LET batch == Range(ordered, pull[q].offset)
          IN  /\ pull' = [pull EXCEPT
                     ![q].remoteCards = @ \o batch,
                     ![q].offset = IF Len(batch) < PULL_PAGE_SIZE THEN @
                                ELSE @ + PULL_PAGE_SIZE,
                     ![q].pc = IF Len(batch) < PULL_PAGE_SIZE
                            THEN "getAllCategories" ELSE "selectCards"]
              /\ UNCHANGED << syncState, pullReturned, retryBlockedUntil,
                              failures >>
       \/ /\ failures < MaxFailures
          /\ failures' = failures + 1
          /\ \E message \in RemoteErrors :
                PullCatch(q, "Failed to fetch flashcards: " \o message)
    /\ UNCHANGED << storeCategories, storeCards >>
    /\ pullFrame

\* line 410: storage.getAllCategories() resolves.
PullGetAllCategories(q) ==
    /\ pull[q].pc = "getAllCategories"
    /\ \E failed \in StoreAccessFails :
          /\ pull' = [pull EXCEPT
                 ![q].localCategories =
                     IF failed THEN DEFAULT_CATEGORIES ELSE storeCategories,
                 ![q].storeFailed =
                     IF failed THEN @ \cup {"getAllCategories"} ELSE @,
                 ![q].pc = "getAllCards"]
          /\ failures' = IF failed THEN failures + 1 ELSE failures
    /\ UNCHANGED << syncState, pullReturned, retryBlockedUntil,
                    storeCategories, storeCards >>
    /\ pullFrame

\* lines 411-441: storage.getAllCards() resolves; convert, merge, dedupe and
\* remap, and saveAllCategories is issued.
PullGetAllCards(q) ==
    /\ pull[q].pc = "getAllCards"
    /\ \E failed \in StoreAccessFails :
          /\ \E localCards \in
                    {IF failed THEN DEFAULT_CARDS ELSE storeCards},
                mergedCategories \in
                    {mergeData(pull[q].localCategories,
                               ConvertedCategories(pull[q].remoteCategories))} :
               \E mergedCards \in
                      {mergeData(localCards,
                                 ConvertedCards(pull[q].remoteCards))},
                  dedupedCategoriesResult \in
                      {dedupeCategoriesByName(mergedCategories)} :
                 \E remappedCards \in
                        {remapCardsCategoryIds(mergedCards,
                             dedupedCategoriesResult.idRemap, now)} :
                    pull' = [pull EXCEPT
                        ![q].localCards = localCards,
                        ![q].dedupedCategories =
                            dedupedCategoriesResult.categories,
                        ![q].remappedCards = remappedCards,
                        ![q].storeFailed =
                            IF failed THEN @ \cup {"getAllCards"} ELSE @,
                        ![q].pc = "saveAllCategories"]
          /\ failures' = IF failed THEN failures + 1 ELSE failures
    /\ UNCHANGED << syncState, pullReturned, retryBlockedUntil,
                    storeCategories, storeCards >>
    /\ pullFrame

\* line 441: storage.saveAllCategories(dedupedCategories) resolves.
PullSaveAllCategories(q) ==
    /\ pull[q].pc = "saveAllCategories"
    /\ \E failed \in StoreAccessFails :
          /\ storeCategories' = StoredAfterSave(failed, storeCategories,
                                                pull[q].dedupedCategories)
          /\ pull' = [pull EXCEPT
                 ![q].storeFailed =
                     IF failed THEN @ \cup {"saveAllCategories"} ELSE @,
                 ![q].pc = "saveAllCards"]
          /\ failures' = IF failed THEN failures + 1 ELSE failures
    /\ UNCHANGED << syncState, pullReturned, retryBlockedUntil, storeCards >>
    /\ pullFrame

\* lines 442-455: storage.saveAllCards(remappedCards) resolves; success.
PullSaveAllCards(q) ==
    /\ pull[q].pc = "saveAllCards"
    /\ \E failed \in StoreAccessFails :
          /\ storeCards' = StoredAfterSave(failed, storeCards,
                                           pull[q].remappedCards)
          /\ pullReturned' = [pullReturned EXCEPT ![q] =
                 [PullResult(q, TRUE, "none", "none") EXCEPT
                     !.storeFailed =
                         IF failed THEN @ \cup {"saveAllCards"} ELSE @]]
          /\ failures' = IF failed THEN failures + 1 ELSE failures
    /\ syncState' = [syncState EXCEPT !.isSyncing = FALSE,
                                      !.lastSyncedAt = now]
    /\ retryBlockedUntil' = 0
    /\ pull' = [pull EXCEPT ![q] = IdlePull]
    /\ UNCHANGED storeCategories
    /\ pullFrame

(***************************************************************************)
(* Pulls over local and remote collections drawn from bounded sets.        *)
(***************************************************************************)
PullLocalNames == {"Animals"}
PullRemoteNames == {"animals ", "Food"}

\* local categories in the facade's order
PullLocalCategories ==
    LET Drawn == UniqueLists([id : {"c1", "c2"}, name : PullLocalNames,
                              order : {0}, createdAt : {1}, updatedAt : {1},
                              syncStatus : {"pending", "synced"}], 2)
    IN  { [i \in 1..Len(l) |-> [l[i] EXCEPT !.order = i - 1]] : l \in Drawn }

PullRemoteCategories ==
    UniqueLists([id : {"c2", "c3"}, name : PullRemoteNames,
                 created_at : {toISOString(1)},
                 updated_at : {toISOString(t) : t \in 1..MaxTime}], 2)

PullLocalCards(localCategories) ==
    UniqueLists([id : {"f1"}, categoryId : IdsOf(localCategories),
                 updatedAt : {1}, syncStatus : {"synced"}], 1)

PullRemoteCards(remoteRows) ==
    UniqueLists([id : {"f1", "f2"}, category_id : IdsOf(remoteRows),
                 created_at : {toISOString(1)},
                 updated_at : {toISOString(MaxTime)}], 1)

\* every flashcard references a category of its collection
References(storedCards, storedCategories) ==
    \A i \in 1..Len(storedCards) :
        storedCards[i].categoryId \in IdsOf(storedCategories)

PullInit ==
    /\ now = MaxTime
    /\ mountOnline = TRUE
    /\ storeCategories \in PullLocalCategories
    /\ storeCards \in PullLocalCards(storeCategories)
    /\ remoteCategories \in PullRemoteCategories
    /\ remoteFlashcards \in PullRemoteCards(remoteCategories)
    /\ syncState = [lastSyncedAt |-> Undefined, isSyncing |-> FALSE,
                    isOnline |-> TRUE,
                    pendingChanges |-> PendingCount(storeCards, storeCategories)]
    /\ syncInProgress = FALSE
    /\ retryBlockedUntil = 0
    /\ categories = sortCategories(storeCategories)
    /\ cards = storeCards
    /\ push = [p \in Slots |-> IdlePush]
    /\ pull = [q \in PullSlots |-> IdlePull]
    /\ pushReturned = NoResult
    /\ pullReturned = [q \in PullSlots |-> NoResult]
    /\ lastTransientAt = Undefined
    /\ mutations = 0
    /\ failures = 0
    /\ PureIdle
    /\ FullIdle

PullNext ==
    \/ PullCall(PullSlot)
    \/ PullGetSession(PullSlot)
    \/ PullSelectCategories(PullSlot)
    \/ PullSelectCards(PullSlot)
    \/ PullGetAllCategories(PullSlot)
    \/ PullGetAllCards(PullSlot)
    \/ PullSaveAllCategories(PullSlot)
    \/ PullSaveAllCards(PullSlot)

SpecPull == PullInit /\ [][PullNext]_vars

(***************************************************************************)
(* The page loop of the pull over remote flashcards of several pages.      *)
(***************************************************************************)
PagedRemoteCategories ==
    << [id |-> "c1", name |-> "Animals", created_at |-> toISOString(1),
        updated_at |-> toISOString(1)] >>

PagedRemoteCards ==
    UniqueLists([id : {"f1", "f2", "f3"}, category_id : {"c1"},
                 created_at : {toISOString(1)},
                 updated_at : {toISOString(t) : t \in 1..MaxTime}], MaxLen)

PagesInit ==
    /\ now = MaxTime
    /\ mountOnline = TRUE
    /\ storeCategories = << >>
    /\ storeCards = << >>
    /\ remoteCategories = PagedRemoteCategories
    /\ remoteFlashcards \in PagedRemoteCards
    /\ syncState = [lastSyncedAt |-> Undefined, isSyncing |-> FALSE,
                    isOnline |-> TRUE, pendingChanges |-> 0]
    /\ syncInProgress = FALSE
    /\ retryBlockedUntil = 0
    /\ categories = << >>
    /\ cards = << >>
    /\ push = [p \in Slots |-> IdlePush]
    /\ pull = [q \in PullSlots |-> IdlePull]
    /\ pushReturned = NoResult
    /\ pullReturned = [q \in PullSlots |-> NoResult]
    /\ lastTransientAt = Undefined
    /\ mutations = 0
    /\ failures = 0
    /\ PureIdle
    /\ FullIdle

SpecPages == PagesInit /\ [][PullNext]_vars

\* C3: after a successful pullFromCloud every flashcard in the Local Store
\* has the categoryId of a category in the Local Store, when that held
\* before the pull and every remote flashcard references a remote category.
C3_ReferentialIntegrity_AsClaimed ==
    (pull[PullSlot].pc = "idle" /\ pullReturned[PullSlot].success)
        => References(storeCards, storeCategories)

(***************************************************************************)
(* Sync Engine: fullSync.  Its push runs in slot 1; slot 2 is a push some  *)
(* other caller started.  The continuation of an await runs as soon as the *)
(* awaited call has returned, before any other event is handled.           *)
(***************************************************************************)
FullSlot == 1
OtherSlot == 2

\* The test of line 496 never short-circuits.
NeverShortCircuits(pushResult) == FALSE

\* line 496: `if (!pushResult.success)`
ShortCircuits(pushResult) == ~pushResult.success

\* the awaited call of fullSync has returned and fullSync has not resumed
FullResumes ==
    \/ full.pc = "push" /\ ~InFlight(full.slot)
    \/ full.pc = "pull" /\ pull[PullSlot].pc = "idle"

\* line 495: fullSync calls syncToCloud; a call the guards reject has
\* returned at once, and line 496 returns its result.
FullCall ==
    /\ full.pc = "idle"
    /\ SyncToCloud(FullSlot, syncState.isOnline, syncState)
    /\ IF InFlight(FullSlot)'
       THEN /\ full' = [IdleFull EXCEPT !.pc = "push", !.slot = FullSlot,
                                        !.online = syncState.isOnline]
            /\ UNCHANGED fullReturned
       ELSE IF ShortCircuits(pushReturned')
       THEN /\ fullReturned' = [result |-> pushReturned',
                                push |-> pushReturned', pulls |-> 0]
            /\ UNCHANGED full
       ELSE /\ full' = [IdleFull EXCEPT !.pc = "push", !.slot = FullSlot,
                                        !.online = syncState.isOnline]
            /\ UNCHANGED fullReturned
    /\ UNCHANGED << pureVars, facadeAux, storeLayerVars >>

\* lines 496-500: the push has returned; fullSync returns its failure, or
\* calls the pullFromCloud its closure holds.
FullAfterPush ==
    /\ full.pc = "push"
    /\ ~InFlight(full.slot)
    /\ IF ShortCircuits(pushReturned)
       THEN /\ fullReturned' = [result |-> pushReturned, push |-> pushReturned,
                                pulls |-> 0]
            /\ full' = IdleFull
            /\ UNCHANGED engineVars
       ELSE /\ PullFromCloud(PullSlot, full.online)
            /\ IF pull'[PullSlot].pc = "idle"
               THEN /\ fullReturned' = [result |-> pullReturned'[PullSlot],
                                        push |-> pushReturned, pulls |-> 1]
                    /\ full' = IdleFull
               ELSE /\ full' = [full EXCEPT !.pc = "pull", !.pulls = 1]
                    /\ fullReturned' = [fullReturned EXCEPT
                                            !.push = pushReturned]
    /\ UNCHANGED << pureVars, facadeAux, storeLayerVars >>

\* lines 500-501: the pull has returned and fullSync returns its result.
FullAfterPull ==
    /\ full.pc = "pull"
    /\ pull[PullSlot].pc = "idle"
    /\ fullReturned' = [result |-> pullReturned[PullSlot], push |-> fullReturned.push,
                        pulls |-> full.pulls]
    /\ full' = IdleFull
    /\ UNCHANGED engineVars
    /\ UNCHANGED << pureVars, facadeAux, storeLayerVars >>

\* A stored category and a stored flashcard wait to be pushed.
FullInit ==
    /\ now = 1
    /\ mountOnline \in BOOLEAN
    /\ storeCategories = SeededCategories
    /\ storeCards = << [id |-> "f1", categoryId |-> "c1", updatedAt |-> 1,
                        syncStatus |-> "pending"] >>
    /\ syncState = [lastSyncedAt |-> Undefined, isSyncing |-> FALSE,
                    isOnline |-> mountOnline,
                    pendingChanges |-> PendingCount(storeCards, storeCategories)]
    /\ syncInProgress = FALSE
    /\ retryBlockedUntil = 0
    /\ categories = storeCategories
    /\ cards = storeCards
    /\ remoteCategories = << >>
    /\ remoteFlashcards = << >>
    /\ push = [p \in Slots |-> IdlePush]
    /\ pull = [q \in PullSlots |-> IdlePull]
    /\ pushReturned = NoResult
    /\ pullReturned = [q \in PullSlots |-> NoResult]
    /\ lastTransientAt = Undefined
    /\ mutations = 0
    /\ failures = 0
    /\ PureIdle
    /\ FullIdle

FullNext ==
    \/ FullCall /\ UNCHANGED triggers
    \/ FullAfterPush /\ UNCHANGED triggers
    \/ FullAfterPull /\ UNCHANGED triggers
    \/ ~FullResumes /\ HandleOffline
    \/ ~FullResumes /\ HandleOnline(OtherSlot)
    \/ ~FullResumes /\ PushCall(OtherSlot)
    \/ ~FullResumes /\ \E p \in Slots : PushGetSession(p)
    \/ ~FullResumes /\ \E p \in Slots : PushGetPendingCards(p)
    \/ ~FullResumes /\ \E p \in Slots : PushGetPendingCategories(p)
    \/ ~FullResumes /\ \E p \in Slots : PushUpsertCategories(p)
    \/ ~FullResumes /\ \E p \in Slots : PushGetAllCategories(p)
    \/ ~FullResumes /\ \E p \in Slots : PushSaveAllCategories(p)
    \/ ~FullResumes /\ \E p \in Slots : PushUpsertCards(p)
    \/ ~FullResumes /\ \E p \in Slots : PushGetAllCards(p)
    \/ ~FullResumes /\ \E p \in Slots : PushSaveAllCards(p)
    \/ ~FullResumes /\ PullGetSession(PullSlot)
    \/ ~FullResumes /\ PullSelectCategories(PullSlot)
    \/ ~FullResumes /\ PullSelectCards(PullSlot)
    \/ ~FullResumes /\ PullGetAllCategories(PullSlot)
    \/ ~FullResumes /\ PullGetAllCards(PullSlot)
    \/ ~FullResumes /\ PullSaveAllCategories(PullSlot)
    \/ ~FullResumes /\ PullSaveAllCards(PullSlot)

SpecFullSync == FullInit /\ [][FullNext]_vars

\* C11: fullSync's push has returned before its pull starts; when the push
\* returned success=false fullSync returns that very result and has not
\* called pullFromCloud; when the push succeeded fullSync returns the result
\* of the one pull it ran.
C11_FullSyncOrdering ==
    /\ pull[PullSlot].pc # "idle" => (full.pc = "pull" /\ ~InFlight(FullSlot))
    /\ ~fullReturned.push.success =>
           /\ fullReturned.result = fullReturned.push
           /\ fullReturned.pulls = 0
    /\ (full.pc = "idle" /\ fullReturned.push.slot = FullSlot
            /\ fullReturned.push.success) =>
           /\ fullReturned.pulls = 1
           /\ fullReturned.result = pullReturned[PullSlot]

\* fullSync was called while another push was in flight and returned its
\* push's 'Sync already in progress' without a pull.
C11_Witness ==
    /\ full.pc = "idle"
    /\ fullReturned.result.error = "Sync already in progress"
    /\ fullReturned.push.slot = FullSlot
    /\ fullReturned.pulls = 0
    /\ InFlight(OtherSlot)
    /\ pull[PullSlot].pc = "idle"

(***************************************************************************)
(* The facade's specification: the mutations of useFlashcards with their    *)
(* debounced push, over lists the user created on this device.              *)
(***************************************************************************)
FacadeCategoryIds == {"c1", "c2", "c3"}
FacadeCardIds == {"f1", "f2"}

\* the slot of the pushes the timeout starts
TimerSlot == 1

\* categories as addCategory leaves them: orders 0..n-1, pending
CreatedCategories(n) ==
    [i \in 1..n |->
        [id |-> << "c1", "c2", "c3" >>[i],
         name |-> "Animals", order |-> i - 1, createdAt |-> 0,
         updatedAt |-> 0, syncStatus |-> "pending"]]

CreatedCards(categoryIds) ==
    [i \in 1..Len(categoryIds) |->
        [id |-> << "f1", "f2" >>[i],
         categoryId |-> categoryIds[i], updatedAt |-> 0,
         syncStatus |-> "pending"]]

\* no card, a card in the first category, and a second one in the last
CardPlacements(items) ==
    IF Len(items) = 0 THEN {<< >>}
    ELSE {<< >>, << items[1].id >>, << items[1].id, items[Len(items)].id >>}

\* sequences of distinct category ids: the argument of reorderCategories
IdLists ==
    {ids \in UNION {[1..n -> FacadeCategoryIds] : n \in 0..MaxLen} :
        \A i, j \in 1..Len(ids) : i # j => ids[i] # ids[j]}

FacadeInit ==
    /\ now = 1
    /\ mountOnline \in BOOLEAN
    /\ \E n \in 0..(MaxLen - 1) :
         \E cardCategories \in CardPlacements(CreatedCategories(n)) :
            /\ categories = CreatedCategories(n)
            /\ cards = CreatedCards(cardCategories)
    /\ storeCategories = categories
    /\ storeCards = cards
    /\ syncState = [lastSyncedAt |-> Undefined, isSyncing |-> FALSE,
                    isOnline |-> mountOnline,
                    pendingChanges |-> PendingCount(cards, categories)]
    /\ syncInProgress = FALSE
    /\ retryBlockedUntil = 0
    /\ remoteCategories = << >>
    /\ remoteFlashcards = << >>
    /\ push = [p \in Slots |-> IdlePush]
    /\ pull = [q \in PullSlots |-> IdlePull]
    /\ pushReturned = NoResult
    /\ pullReturned = [q \in PullSlots |-> NoResult]
    /\ lastTransientAt = Undefined
    /\ mutations = 0
    \* the remote answers every request of this specification
    /\ failures = MaxFailures
    /\ FullIdle
    /\ PureIdle

\* the mutations whose save is followed by scheduleCloudSync when online
FacadeAddCard ==
    \E id \in FacadeCardIds, categoryId \in FacadeCategoryIds :
        /\ AddCard(id, categoryId)
        /\ Recorded("addCard", << id, categoryId >>)
        /\ ScheduleCloudSync(syncState.isOnline)

FacadeUpdateCard ==
    \E id \in FacadeCardIds :
        /\ UpdateCard(id)
        /\ Recorded("updateCard", << id >>)
        /\ ScheduleCloudSync(syncState.isOnline)

FacadeAddCategory ==
    \E id \in FacadeCategoryIds, name \in FacadeNames :
        /\ AddCategory(id, name)
        /\ Recorded("addCategory", << id >>)
        /\ ScheduleCloudSync(syncState.isOnline)

FacadeUpdateCategory ==
    \E id \in FacadeCategoryIds, name \in FacadeNames :
        /\ UpdateCategory(id, name)
        /\ Recorded("updateCategory", << id >>)
        /\ ScheduleCloudSync(syncState.isOnline)

FacadeReorderCategories ==
    \E categoryIds \in IdLists :
        \* the list is dragged into its order: it names categories on screen
        /\ \A i \in 1..Len(categoryIds) : categoryIds[i] \in IdsOf(categories)
        /\ ReorderCategories(categoryIds)
        /\ Recorded("reorderCategories", categoryIds)
        /\ ScheduleCloudSync(syncState.isOnline)

\* the deletions: their `.then` only refreshes the pending count
FacadeDeleteCard ==
    \E id \in FacadeCardIds :
        /\ id \in IdsOf(cards)
        /\ DeleteCard(id)
        /\ Recorded("deleteCard", << id >>)
        /\ UNCHANGED timer

FacadeDeleteCategory ==
    \E id \in FacadeCategoryIds :
        /\ id \in IdsOf(categories)
        /\ DeleteCategory(id)
        /\ Recorded("deleteCategory", << id >>)
        /\ UNCHANGED timer

FacadeNext ==
    \/ FacadeTick
    \/ FacadeAddCard
    \/ FacadeUpdateCard
    \/ FacadeAddCategory
    \/ FacadeUpdateCategory
    \/ FacadeReorderCategories
    \/ FacadeDeleteCard
    \/ FacadeDeleteCategory
    \/ TimerFire(TimerSlot)
    \/ PushGetSession(TimerSlot)
    \/ PushGetPendingCards(TimerSlot)
    \/ PushGetPendingCategories(TimerSlot)
    \/ PushUpsertCategories(TimerSlot)
    \/ PushGetAllCategories(TimerSlot)
    \/ PushSaveAllCategories(TimerSlot)
    \/ PushUpsertCards(TimerSlot)
    \/ PushGetAllCards(TimerSlot)
    \/ PushSaveAllCards(TimerSlot)

SpecFacade == FacadeInit /\ [][FacadeNext]_vars

(***************************************************************************)
(* Claims about the facade (checked under SpecFacade).                      *)
(***************************************************************************)
\* the step of the mutation op
Mutation(op) == mutations' = mutations + 1 /\ lastOp'.op = op

ItemsOf(items) == {items[i] : i \in 1..Len(items)}

\* C13 at the step of deleteCategory(c) alone: when its two writes have
\* resolved, neither the lists in memory nor the Local Store hold category c
\* or a flashcard whose categoryId is c, and every other category and every
\* flashcard of another category that was there before is still there.
C13_CascadeAtSave ==
    [][Mutation("deleteCategory") =>
         LET c == lastOp'.arg[1]
         IN  /\ c \in IdsOf(categories)
             /\ c \notin IdsOf(categories') \cup IdsOf(storeCategories')
             /\ \A card \in ItemsOf(cards') \cup ItemsOf(storeCards') :
                    card.categoryId # c
             /\ \A category \in ItemsOf(categories) :
                    category.id # c =>
                        /\ category \in ItemsOf(categories')
                        /\ category \in ItemsOf(storeCategories')
             /\ \A card \in ItemsOf(cards) :
                    card.categoryId # c =>
                        /\ card \in ItemsOf(cards')
                        /\ card \in ItemsOf(storeCards')]_vars

\* a category with a card was deleted while another category held a card,
\* and a push was in flight
C13_Witness ==
    /\ lastOp.op = "deleteCategory"
    /\ \E card \in ItemsOf(lastOp.cards) : card.categoryId = lastOp.arg[1]
    /\ Len(cards) >= 1
    /\ Len(categories) >= 1
    /\ Len(cards) < Len(lastOp.cards)
    /\ InFlight(TimerSlot)

\* C13 as claimed: after deleteCategory(c), until the next mutation, neither
\* the lists in memory nor the Local Store hold category c or a flashcard
\* whose categoryId is c, and every other category and every flashcard of
\* another category that was there before is still in both.
C13_CascadeDelete_AsClaimed ==
    lastOp.op = "deleteCategory" =>
        LET c == lastOp.arg[1]
        IN  /\ c \notin IdsOf(categories) \cup IdsOf(storeCategories)
            /\ \A card \in ItemsOf(cards) \cup ItemsOf(storeCards) :
                   card.categoryId # c
            /\ \A category \in ItemsOf(lastOp.categories) :
                   category.id # c =>
                       category.id \in IdsOf(categories)
                                           \cap IdsOf(storeCategories)
            /\ \A card \in ItemsOf(lastOp.cards) :
                   card.categoryId # c =>
                       card.id \in IdsOf(cards) \cap IdsOf(storeCards)

\* ids lists every category of items exactly once
ListsEveryCategoryOnce(ids, items) ==
    /\ Len(ids) = Len(items)
    /\ IdsOf(items) = {ids[i] : i \in 1..Len(ids)}

\* C14: when reorderCategories(ids) has acted on an ids that lists every
\* existing category exactly once, the category at (zero-based) position i of
\* ids has order i and syncStatus pending, in memory and in the Local Store,
\* so the orders are exactly 0..n-1, and the list is in the order of ids.
C14_ReorderDensity ==
    [][(/\ Mutation("reorderCategories")
        /\ ListsEveryCategoryOnce(lastOp'.arg, categories)) =>
         /\ Len(categories') = Len(categories)
         /\ storeCategories' = categories'
         /\ \A i \in 1..Len(categories') :
                /\ categories'[i].id = lastOp'.arg[i]
                /\ categories'[i].order = i - 1
                /\ categories'[i].syncStatus = "pending"]_vars

\* three categories were put in another order
C14_Witness ==
    /\ lastOp.op = "reorderCategories"
    /\ Len(lastOp.categories) = 3
    /\ ListsEveryCategoryOnce(lastOp.arg, lastOp.categories)
    /\ lastOp.arg[1] = lastOp.categories[3].id
    /\ lastOp.arg[2] = lastOp.categories[1].id
    /\ categories[1].id = lastOp.arg[1]
    /\ categories[3].order = 2

\* the step in which a debounce timeout fires
Fires == timer'.fires = timer.fires + 1

\* the step of a mutation that calls scheduleCloudSync while online
Schedules == mutations' = mutations + 1 /\ timer'.ref # timer.ref

AnyMutation == mutations' = mutations + 1

\* C21 as claimed: every facade mutation (addCard, updateCard, deleteCard,
\* addCategory, updateCategory, deleteCategory, reorderCategories), once its
\* Local Store write has completed, has recomputed the pending count and,
\* when the device is online (sync is enabled in this build), has scheduled
\* a debounced push one quiet period ahead.
C21_MutationSchedules_AsClaimed ==
    [][AnyMutation =>
         /\ syncState'.pendingChanges =
                PendingCount(storeCards', storeCategories')
         /\ syncState.isOnline =>
                /\ timer'.ref # NoHandle
                /\ timer'.ref \in timer'.pending
                /\ timer'.ref.at = now + SYNC_DEBOUNCE_MS]_vars

(***************************************************************************)
(* The Local Store's read of the categories with its legacy-id migration    *)
(* (useOfflineStorage.ts), and the migration notice.                        *)
(***************************************************************************)
\* invocations of getAllCategories a behaviour has at most
MaxReads == 3
\* calls of consumeMigrationNotice a behaviour has at most
MaxNoticeCalls == 2

HexDigits ==
    {"0", "1", "2", "3", "4", "5", "6", "7", "8", "9",
     "a", "b", "c", "d", "e", "f", "A", "B", "C", "D", "E", "F"}

\* line 91: UUID_REGEX.test(value), with its version and variant digits
isUuid(value) ==
    /\ Len(value) = 36
    /\ \A i \in 1..36 :
          IF i \in {9, 14, 19, 24} THEN CharAt(value, i) = "-"
          ELSE IF i = 15 THEN CharAt(value, i) \in {"1", "2", "3", "4", "5"}
          ELSE IF i = 20
               THEN CharAt(value, i) \in {"8", "9", "a", "b", "A", "B"}
               ELSE CharAt(value, i) \in HexDigits

\* the last two digits of the n-th value of crypto.randomUUID() and of
\* Math.random().toString(36)
NthDigits == << "1", "2", "3", "4", "5", "6", "7", "8", "9", "a", "b", "c",
                "d", "e", "f" >>
Nth(n) == NthDigits[((n - 1) \div 15) + 1] \o NthDigits[((n - 1) % 15) + 1]

\* lines 95-101: generateClientId; the n-th id generated.  Date.now() is 1
\* while the store is read.
generateClientId(randomUUID, prefix, n) ==
    IF randomUUID
    THEN "00000000-0000-4000-8000-0000000000" \o Nth(n)
    ELSE prefix \o "_1_" \o Nth(n)

\* Map.prototype.set on a map kept as pairs << key, value >> in insertion
\* order
IdMapSet(map, key, value) ==
    IF \E i \in 1..Len(map) : map[i][1] = key
    THEN [i \in 1..Len(map) |->
             IF map[i][1] = key THEN << key, value >> ELSE map[i]]
    ELSE Append(map, << key, value >>)

IdMapHas(map, key) == \E i \in 1..Len(map) : map[i][1] = key

IdMapGet(map, key) ==
    map[CHOOSE i \in 1..Len(map) : map[i][1] = key][2]

\* lines 226-242: categories.map, filling categoryIdMap; generated counts the
\* ids generateClientId has given
RECURSIVE MigrateCategories(_, _, _, _, _)
MigrateCategories(items, done, map, generated, randomUUID) ==
    IF Len(items) = 0
    THEN [items |-> done, map |-> map, generated |-> generated]
    ELSE LET category == Head(items)
         IN  IF isUuid(category.id)
             THEN MigrateCategories(Tail(items), Append(done, category), map,
                                    generated, randomUUID)
             ELSE LET migratedId ==
                          generateClientId(randomUUID, "cat", generated + 1)
                  IN  MigrateCategories(Tail(items),
                          Append(done, [category EXCEPT !.id = migratedId,
                                            !.updatedAt = now,
                                            !.syncStatus = "pending"]),
                          IdMapSet(map, category.id, migratedId),
                          generated + 1, randomUUID)

\* lines 245-247
HasLegacyCards(items, map) ==
    \E i \in 1..Len(items) :
        ~isUuid(items[i].id) \/ IdMapHas(map, items[i].categoryId)

\* lines 249-277: cards.map
RECURSIVE MigrateCards(_, _, _, _, _)
MigrateCards(items, done, map, generated, randomUUID) ==
    IF Len(items) = 0
    THEN [items |-> done, generated |-> generated]
    ELSE LET card == Head(items)
             fresh == ~isUuid(card.id)
             nextId == IF fresh
                       THEN generateClientId(randomUUID, "card", generated + 1)
                       ELSE card.id
             nextCategoryId == IF IdMapHas(map, card.categoryId)
                               THEN IdMapGet(map, card.categoryId)
                               ELSE card.categoryId
             didChange == fresh \/ nextCategoryId # card.categoryId
         IN  MigrateCards(Tail(items),
                 Append(done,
                     IF didChange
                     THEN [card EXCEPT !.id = nextId,
                                       !.categoryId = nextCategoryId,
                                       !.updatedAt = now,
                                       !.syncStatus = "pending"]
                     ELSE card),
                 map, IF fresh THEN generated + 1 ELSE generated, randomUUID)

\* a step of the storage layer leaves the engine, but for the store, alone
storageFrame ==
    /\ UNCHANGED << now, mountOnline, syncState, syncInProgress,
                    retryBlockedUntil, categories, cards, remoteCategories,
                    remoteFlashcards, push, pull, pushReturned, pullReturned,
                    lastTransientAt, mutations, failures >>
    /\ UNCHANGED << pureVars, fullVars, facadeAux, idb, access, triggers >>

\* an access of the Local Store may fail
MayFail == notice.accessFailures < MaxFailures

\* lines 209-242: getAllCategories is called, reads the stored list and,
\* when an id is not a UUID, builds the migrated list and its id map; the
\* catch (287-290) answers a failed read with DEFAULT_CATEGORIES.
GetAllCategories(r) ==
    /\ reads[r].pc \in {"idle", "done"}
    /\ notice.reads < MaxReads
    /\ \/ /\ MayFail
          /\ reads' = [reads EXCEPT ![r] =
                 [IdleRead EXCEPT !.pc = "done",
                                  !.returned = DEFAULT_CATEGORIES,
                                  !.failed = {"getAllCategories"}]]
          /\ notice' = [notice EXCEPT !.reads = @ + 1,
                                      !.accessFailures = @ + 1]
          /\ UNCHANGED crypto
       \/ /\ \A i \in 1..Len(storeCategories) : isUuid(storeCategories[i].id)
          /\ reads' = [reads EXCEPT ![r] =
                 [IdleRead EXCEPT !.pc = "done",
                                  !.categories = storeCategories,
                                  !.returned = storeCategories]]
          /\ notice' = [notice EXCEPT !.reads = @ + 1]
          /\ UNCHANGED crypto
       \/ /\ \E i \in 1..Len(storeCategories) : ~isUuid(storeCategories[i].id)
          /\ LET m == MigrateCategories(storeCategories, << >>, << >>,
                                        crypto.generated, crypto.randomUUID)
             IN  /\ reads' = [reads EXCEPT ![r] =
                        [IdleRead EXCEPT !.pc = "getAllCards",
                                         !.categories = storeCategories,
                                         !.categoryIdMap = m.map,
                                         !.migratedCategories = m.items]]
                 /\ crypto' = [crypto EXCEPT !.generated = m.generated]
          /\ notice' = [notice EXCEPT !.reads = @ + 1]
    /\ UNCHANGED << hasUnseenMigration, storeCategories, storeCards >>
    /\ storageFrame

\* lines 244-277: the migration's getAllCards, which answers a failed read
\* with DEFAULT_CARDS (163-166), and the cards it builds
ReadGetAllCards(r) ==
    /\ reads[r].pc = "getAllCards"
    /\ \E failed \in {b \in BOOLEAN : b => MayFail} :
          LET loaded == IF failed THEN DEFAULT_CARDS ELSE storeCards
              hasLegacyCards == HasLegacyCards(loaded, reads[r].categoryIdMap)
              m == MigrateCards(loaded, << >>, reads[r].categoryIdMap,
                                crypto.generated, crypto.randomUUID)
          IN  /\ reads' = [reads EXCEPT ![r] =
                     [@ EXCEPT !.pc = "save", !.cards = loaded,
                               !.hasLegacyCards = hasLegacyCards,
                               !.migratedCards =
                                   IF hasLegacyCards THEN m.items ELSE loaded,
                               !.failed = IF failed THEN @ \cup {"getAllCards"}
                                          ELSE @]]
              /\ crypto' = [crypto EXCEPT !.generated =
                                IF hasLegacyCards THEN m.generated ELSE @]
              /\ notice' = [notice EXCEPT !.accessFailures =
                                IF failed THEN @ + 1 ELSE @]
    /\ UNCHANGED << hasUnseenMigration, storeCategories, storeCards >>
    /\ storageFrame

\* lines 279-286: the two writes of Promise.all, each of which swallows its
\* failure (169-175, 200-206), then the flag and the return
ReadSave(r) ==
    /\ reads[r].pc = "save"
    /\ \E failedWrites \in SUBSET {"saveAllCategories", "saveAllCards"} :
          /\ notice.accessFailures + Cardinality(failedWrites) <= MaxFailures
          /\ "saveAllCards" \in failedWrites => reads[r].hasLegacyCards
          /\ storeCategories' =
                 IF "saveAllCategories" \in failedWrites
                 THEN storeCategories ELSE reads[r].migratedCategories
          /\ storeCards' =
                 IF reads[r].hasLegacyCards /\ "saveAllCards" \notin failedWrites
                 THEN reads[r].migratedCards ELSE storeCards
          /\ reads' = [reads EXCEPT ![r] =
                 [@ EXCEPT !.pc = "done", !.migrated = TRUE,
                           !.returned = reads[r].migratedCategories,
                           !.failed = @ \cup failedWrites]]
          /\ notice' = [notice EXCEPT
                 !.migrations = @ + 1, !.unseen = @ + 1,
                 !.accessFailures = @ + Cardinality(failedWrites)]
    /\ hasUnseenMigration' = TRUE
    /\ UNCHANGED crypto
    /\ storageFrame

\* The flag stays as it is.
FlagKept(flag) == flag

\* line 384: `hasUnseenMigration = false`
FlagCleared(flag) == FALSE

\* lines 379-386: consumeMigrationNotice
ConsumeMigrationNotice ==
    /\ notice.calls < MaxNoticeCalls
    /\ hasUnseenMigration' =
           IF ~hasUnseenMigration THEN hasUnseenMigration
           ELSE FlagCleared(hasUnseenMigration)
    /\ notice' = [notice EXCEPT
           !.calls = @ + 1,
           !.returned = Append(@, hasUnseenMigration),
           !.unseen = IF hasUnseenMigration THEN 0 ELSE @]
    /\ UNCHANGED << reads, crypto, storeCategories, storeCards >>
    /\ storageFrame

\* cards the store holds at most when it is first read
MaxStoredCards == 1

\* ids of the stored lists: two from before UUIDs were used and a UUID
StoredCategoryIds ==
    {<< >>, << "1" >>, << "00000000-0000-4000-8000-0000000000c1" >>,
     << "1", "2" >>, << "1", "00000000-0000-4000-8000-0000000000c1" >>,
     << "00000000-0000-4000-8000-0000000000c1", "1" >>}

StoredCardIds == << {"card_1_x", "00000000-0000-4000-8000-0000000000f1"},
                    {"card_1_y", "00000000-0000-4000-8000-0000000000f2"} >>

\* stored lists of categories written before the migration existed
StoredCategories ==
    {[i \in 1..Len(ids) |->
         [id |-> ids[i], name |-> "Animals", order |-> i - 1,
          createdAt |-> 0, updatedAt |-> 0, syncStatus |-> "synced"]] :
     ids \in StoredCategoryIds}

\* stored lists of at most MaxStoredCards cards of those categories
StoredCards(items) ==
    UNION {{[i \in 1..n |->
                [id |-> ids[i], categoryId |-> of[i], updatedAt |-> 0,
                 syncStatus |-> "synced"]] :
            ids \in {s \in [1..n -> StoredCardIds[1] \cup StoredCardIds[2]] :
                        \A i \in 1..n : s[i] \in StoredCardIds[i]},
            of \in [1..n -> IdsOf(items)]} :
           n \in 0..MaxStoredCards}

MigrationInit ==
    /\ now = 1
    /\ mountOnline = TRUE
    /\ storeCategories \in StoredCategories
    /\ storeCards \in StoredCards(storeCategories)
    /\ syncState = [lastSyncedAt |-> Undefined, isSyncing |-> FALSE,
                    isOnline |-> TRUE, pendingChanges |-> 0]
    /\ syncInProgress = FALSE
    /\ retryBlockedUntil = 0
    /\ categories = << >>
    /\ cards = << >>
    /\ remoteCategories = << >>
    /\ remoteFlashcards = << >>
    /\ push = [p \in Slots |-> IdlePush]
    /\ pull = [q \in PullSlots |-> IdlePull]
    /\ pushReturned = NoResult
    /\ pullReturned = [q \in PullSlots |-> NoResult]
    /\ lastTransientAt = Undefined
    /\ mutations = 0
    /\ failures = 0
    /\ full = IdleFull
    /\ fullReturned = NoFullResult
    /\ lastOp = NoOp
    /\ timer = NoTimer
    /\ hasUnseenMigration = FALSE
    /\ reads = [r \in Readers |-> IdleRead]
    /\ crypto \in [randomUUID : BOOLEAN, generated : {0}]
    /\ notice = NoNotice
    /\ idb = ProvisionedDatabase
    /\ access = NoAccess
    /\ triggers = NoTriggers
    /\ PureIdle

MigrationNext ==
    \/ \E r \in Readers : GetAllCategories(r)
    \/ \E r \in Readers : ReadGetAllCards(r)
    \/ \E r \in Readers : ReadSave(r)
    \/ ConsumeMigrationNotice

SpecMigration == MigrationInit /\ [][MigrationNext]_vars

(***************************************************************************)
(* Claims about the migration (checked under SpecMigration).                *)
(***************************************************************************)
\* every invocation of getAllCategories has returned
ReadsAtRest == \A r \in Readers : reads[r].pc \in {"idle", "done"}

\* the stored lists after a migration, as C15 describes them
MigratedStore ==
    /\ \A category \in ItemsOf(storeCategories) : isUuid(category.id)
    /\ \A card \in ItemsOf(storeCards) :
          /\ card.categoryId \in IdsOf(storeCategories)
          /\ isUuid(card.id)
    /\ \A r \in Readers :
          \A i \in 1..Len(reads[r].categories) :
              ~isUuid(reads[r].categories[i].id) =>
                  /\ storeCategories[i].syncStatus = "pending"
                  /\ \A card \in ItemsOf(storeCards) :
                         card.categoryId = storeCategories[i].id =>
                             card.syncStatus = "pending"

\* C15 as claimed: when getAllCategories has read a stored list holding an id
\* that is no UUID, with crypto.randomUUID available and no store access
\* failing, then once it has returned every stored category id is a UUID,
\* every flashcard references a stored category by its new id, and the
\* rewritten categories and flashcards are pending.
C15_LegacyMigration_AsClaimed ==
    (/\ crypto.randomUUID
     /\ notice.accessFailures = 0
     /\ notice.migrations >= 1
     /\ ReadsAtRest) => MigratedStore

\* C15 for invocations that do not overlap: the same, when one invocation
\* alone has run the migration.
C15_OneAtATime ==
    (/\ crypto.randomUUID
     /\ notice.accessFailures = 0
     /\ notice.migrations = 1
     /\ ReadsAtRest) => MigratedStore

\* the step of a consumeMigrationNotice call, and what the call returned
Consumes == notice'.calls = notice.calls + 1
Answer == notice'.returned[Len(notice'.returned)]

\* C16: consumeMigrationNotice returns true exactly when a migration has
\* completed since the last call that returned true (notice.unseen counts
\* them), a call that returns true leaves the flag cleared, so the next call
\* returns false unless another migration completes, and no call returns true
\* while no migration has completed.
C16_NoticeEdgeTriggered ==
    /\ [](/\ hasUnseenMigration <=> notice.unseen > 0
          /\ notice.migrations = 0 =>
                 \A i \in 1..Len(notice.returned) : ~notice.returned[i])
    /\ [][Consumes =>
            /\ Answer <=> notice.unseen > 0
            /\ ~hasUnseenMigration'
            /\ notice'.unseen = 0]_vars

\* one migration, then two calls: the first returned true, the second false
C16_Witness ==
    /\ notice.migrations = 1
    /\ notice.returned = << TRUE, FALSE >>
    /\ ReadsAtRest

\* the ids the migration of invocation r replaced, and the ids it gave
LegacyIds(r) ==
    {reads[r].categoryIdMap[i][1] : i \in 1..Len(reads[r].categoryIdMap)}
NewIds(r) ==
    {reads[r].categoryIdMap[i][2] : i \in 1..Len(reads[r].categoryIdMap)}

\* C17 as claimed: when the one invocation of getAllCategories that ran the
\* migration has returned, the Local Store does not hold the migrated
\* categories together with a flashcard whose categoryId is still a legacy
\* id, nor the categories as they were together with a flashcard whose
\* categoryId is one of the new ids.
C17_AllOrNothing_AsClaimed ==
    \A r \in Readers :
        (/\ reads[r].pc = "done"
         /\ reads[r].migrated
         /\ notice.reads = 1) =>
            /\ ~(/\ storeCategories = reads[r].migratedCategories
                 /\ \E card \in ItemsOf(storeCards) :
                        card.categoryId \in LegacyIds(r))
            /\ ~(/\ storeCategories = reads[r].categories
                 /\ \E card \in ItemsOf(storeCards) :
                        card.categoryId \in NewIds(r))

(***************************************************************************)
(* Claims about failures (checked under SpecFullSync).                      *)
(***************************************************************************)
\* the step in which a push / the pull returns from its catch block with the
\* message of a permanent error
PushFailsPermanently ==
    /\ pushReturned' # pushReturned
    /\ pushReturned'.thrown # "none"
    /\ ~isTransientNetworkError(pushReturned'.thrown)

PullFailsPermanently ==
    /\ pullReturned' # pullReturned
    /\ pullReturned'[PullSlot].thrown # "none"
    /\ ~isTransientNetworkError(pullReturned'[PullSlot].thrown)

\* C19: a push or pull that fails with a permanent error returns success =
\* false with an error that contains the message of the error caught, and
\* leaves retryBlockedUntil as it was, so that the guard of a push called
\* right after does not answer 'temporarily unavailable'.
C19_PermanentFailure ==
    /\ [][PushFailsPermanently =>
            /\ ~pushReturned'.success
            /\ includes(pushReturned'.error, pushReturned'.thrown)
            /\ retryBlockedUntil' = retryBlockedUntil
            /\ PushGuard(TRUE, now', retryBlockedUntil', syncInProgress')
                   # TemporarilyUnavailable]_vars
    /\ [][PullFailsPermanently =>
            /\ ~pullReturned'[PullSlot].success
            /\ includes(pullReturned'[PullSlot].error, pullReturned'[PullSlot].thrown)
            /\ retryBlockedUntil' = retryBlockedUntil
            /\ PushGuard(TRUE, now', retryBlockedUntil', syncInProgress')
                   # TemporarilyUnavailable]_vars

\* the push of fullSync failed with the remote's permission error, fullSync
\* returned it, and a push called afterwards has passed its guards
C19_Witness ==
    /\ fullReturned.push.thrown =
           "Category sync failed: permission denied for table"
    /\ fullReturned.push.error = fullReturned.push.thrown
    /\ ~fullReturned.result.success
    /\ full.pc = "idle"
    /\ InFlight(OtherSlot)

\* C18 as claimed: a pull, or a fullSync, during which an access of the
\* Local Store failed returns success = false with an error message.
C18_FailuresReturned_AsClaimed ==
    /\ pullReturned[PullSlot].storeFailed # {} =>
          /\ ~pullReturned[PullSlot].success
          /\ pullReturned[PullSlot].error # "none"
    /\ fullReturned.result.storeFailed # {} =>
          /\ ~fullReturned.result.success
          /\ fullReturned.result.error # "none"

\* no item of `after` is older than the item of `before` with its id
NoneOlder(before, after) ==
    \A i \in 1..Len(before), j \in 1..Len(after) :
        before[i].id = after[j].id =>
            after[j].updatedAt >= before[i].updatedAt

\* C24 as claimed: for every entity id, the updatedAt held in the Local
\* Store never decreases, whatever facade mutations and pushes take place
\* (the clock does not go back, and the remote holds only what pushes wrote).
C24_UpdatedAtMonotone_AsClaimed ==
    [][/\ NoneOlder(storeCategories, storeCategories')
       /\ NoneOlder(storeCards, storeCards')]_vars

(***************************************************************************)
(* Progress: every request and every access of the store is answered.       *)
(***************************************************************************)
\* the answer to the request the push of slot p waits for
PushAnswer(p) ==
    \/ PushGetSession(p)
    \/ PushGetPendingCards(p)
    \/ PushGetPendingCategories(p)
    \/ PushUpsertCategories(p)
    \/ PushGetAllCategories(p)
    \/ PushSaveAllCategories(p)
    \/ PushUpsertCards(p)
    \/ PushGetAllCards(p)
    \/ PushSaveAllCards(p)

\* the answer to the request the pull of slot q waits for
PullAnswer(q) ==
    \/ PullGetSession(q)
    \/ PullSelectCategories(q)
    \/ PullSelectCards(q)
    \/ PullGetAllCategories(q)
    \/ PullGetAllCards(q)
    \/ PullSaveAllCategories(q)
    \/ PullSaveAllCards(q)

\* fullSync resumes when the call it awaits has returned
FullAnswer ==
    \/ FullAfterPush /\ UNCHANGED triggers
    \/ FullAfterPull /\ UNCHANGED triggers

\* SpecFullSync where every awaited call returns: weak fairness of the
\* answers, with the enabling condition of each written as the state it is
\* (a push or a pull in flight has exactly one request outstanding)
SpecFullSyncLive ==
    /\ FullInit
    /\ [][FullNext]_vars
    /\ \A p \in Slots :
          \/ []<>(FullResumes \/ ~InFlight(p))
          \/ []<><<PushAnswer(p)>>_vars
    /\ \/ []<>(FullResumes \/ pull[PullSlot].pc = "idle")
       \/ []<><<PullAnswer(PullSlot)>>_vars
    /\ WF_vars(FullAnswer)

\* no push and no pull is in flight
NothingInFlight ==
    /\ \A p \in Slots : ~InFlight(p)
    /\ \A q \in PullSlots : pull[q].pc = "idle"

\* C26: no sync state is terminal.  When every request and every access of
\* the store is answered, a push or a pull that has started finishes
\* (whether it succeeds, finds no user or fails); whenever no operation is
\* in flight, isSyncing is false and syncInProgress is released; and a push
\* called when nothing is in flight is not answered 'Sync already in
\* progress'.
C26_NoTerminalState ==
    /\ \A p \in Slots : InFlight(p) ~> ~InFlight(p)
    /\ (pull[PullSlot].pc # "idle") ~> (pull[PullSlot].pc = "idle")
    /\ (full.pc # "idle") ~> (full.pc = "idle")
    /\ [](NothingInFlight => ~syncState.isSyncing /\ ~syncInProgress)
    /\ [][(NothingInFlight /\ pushReturned' # pushReturned) =>
             pushReturned'.error # "Sync already in progress"]_vars

\* a push that threw has returned, and nothing is in flight
C26_Witness ==
    /\ NothingInFlight
    /\ ~pushReturned.success
    /\ pushReturned.thrown # "none"
    /\ pushReturned.failedAt # "none"
    /\ ~syncState.isSyncing
    /\ ~syncInProgress

\* C27 as claimed: whenever no push, no pull and no fullSync is in flight,
\* syncState.pendingChanges is the number of categories plus the number of
\* flashcards of the Local Store whose syncStatus is pending.
C27_PendingCountAtRest_AsClaimed ==
    (NothingInFlight /\ full.pc = "idle") =>
        syncState.pendingChanges = PendingCount(storeCards, storeCategories)

\* the ids of the categories and of the flashcards that the mutation op of
\* the arguments arg may change in the Local Store
TouchedCategories(op, arg) ==
    CASE op \in {"addCategory", "updateCategory", "deleteCategory"} -> {arg[1]}
      [] op = "reorderCategories" -> {arg[i] : i \in 1..Len(arg)}
      [] OTHER -> {}

TouchedCards(op, arg) ==
    CASE op \in {"addCard", "updateCard", "deleteCard"} -> {arg[1]}
      [] op = "deleteCategory" ->
             {storeCards[i].id : i \in
                 {i \in 1..Len(storeCards) : storeCards[i].categoryId = arg[1]}}
      [] OTHER -> {}

\* the stored entities outside `touched` are the same before and after
OthersKept(before, after, touched) ==
    {e \in ItemsOf(before) : e.id \notin touched} =
        {e \in ItemsOf(after) : e.id \notin touched}

\* C28 as claimed: a mutation of the facade changes, in the Local Store, only
\* the entity it is about (with its flashcards for deleteCategory, the listed
\* categories for reorderCategories); every other stored category and
\* flashcard keeps its fields, its updatedAt and its syncStatus.
C28_WriteThroughFrame_AsClaimed ==
    [][AnyMutation =>
         /\ OthersKept(storeCategories, storeCategories',
                       TouchedCategories(lastOp'.op, lastOp'.arg))
         /\ OthersKept(storeCards, storeCards',
                       TouchedCards(lastOp'.op, lastOp'.arg))]_vars

\* the step in which the push of slot p returns success
ReturnsSuccess(p) ==
    /\ InFlight(p)
    /\ push'[p].pc = "idle"
    /\ pushReturned'.success

\* the step in which the push of slot p has read its pending flashcards
ReadsPending(p) ==
    /\ push[p].pc = "getPendingCards"
    /\ push'[p].pc # "getPendingCards"

RECURSIVE Concat(_)
Concat(chunks) ==
    IF Len(chunks) = 0 THEN << >> ELSE Head(chunks) \o Concat(Tail(chunks))

\* the collection a push is sending the batches of
SendingKind(p) ==
    IF push[p].pc = "upsertCategories" THEN "category" ELSE "flashcard"

Sending(p) == push[p].pc \in {"upsertCategories", "upsertCards"}

\* the versions of kind among the versions vs
OfKind(kind, vs) == {v \in vs : v[1] = kind}

\* the rows a request carries that is sent when `index` rows went out before
RowsFrom(rows, index) ==
    SubSeq(rows, index + 1,
           IF index + SYNC_BATCH_SIZE < Len(rows) THEN index + SYNC_BATCH_SIZE
           ELSE Len(rows))

\* C30: the batches of chunkArray hold at most chunkSize rows each and,
\* one after the other, are the list; every upsert request of a push that is
\* acknowledged carries the next rows of the collection in order, at most
\* SYNC_BATCH_SIZE of them and none that an earlier request of the call
\* carried; when the loop of a collection ends every row of it went out; and
\* when a request fails the call returns at once: the remote tables are as
\* they were, exactly the rows of the batches before it went out, and when
\* it was a category batch no flashcard request was issued.
C30_PushBatching ==
    /\ \A items \in UniqueLists([id : {"r1", "r2", "r3"}], MaxLen) :
          \A chunkSize \in 1..MaxLen :
              LET chunks == chunkArray(items, chunkSize)
              IN  /\ Concat(chunks) = items
                  /\ \A k \in 1..Len(chunks) :
                        /\ Len(chunks[k]) >= 1
                        /\ Len(chunks[k]) <= chunkSize
    /\ [][\A p \in Slots :
            Sending(p) =>
              LET kind == SendingKind(p)
                  rows == push[p].rows
                  index == push[p].index
                  sent == OfKind(kind, push'[p].acked)
                             \ OfKind(kind, push[p].acked)
              IN  /\ (push'[p].index > index) =>
                        /\ sent = VersionsOf(kind, RowsFrom(rows, index))
                        /\ Cardinality(sent) = Len(RowsFrom(rows, index))
                        /\ Cardinality(sent) <= SYNC_BATCH_SIZE
                        /\ Cardinality(sent) >= 1
                  /\ (push'[p].pc \notin {"idle", push[p].pc}) =>
                        OfKind(kind, push'[p].acked) = VersionsOf(kind, rows)
                  /\ (push'[p].pc = "idle") =>
                        /\ ~pushReturned'.success
                        /\ pushReturned'.failedAt = push[p].pc
                        /\ remoteCategories' = remoteCategories
                        /\ remoteFlashcards' = remoteFlashcards
                        /\ OfKind(kind, push[p].acked) =
                               VersionsOf(kind, SubSeq(rows, 1, index))
                        /\ kind = "category" =>
                               /\ "flashcard" \notin pushReturned'.issuedKinds
                               /\ OfKind("flashcard", push[p].acked) = {}]_vars

\* a push whose first category batch was acknowledged failed at the second
C30_Witness ==
    /\ pushReturned.failedAt = "upsertCategories"
    /\ Len(remoteCategories) = 1
    /\ Len(getPending(storeCategories)) = 2
    /\ Len(remoteFlashcards) = 0
    /\ Len(getPending(storeCards)) = 1
    /\ \A p \in Slots : ~InFlight(p)

\* the step in which a push, or a pull, returns `error`
PushRefused(error) ==
    /\ pushReturned' # pushReturned
    /\ pushReturned'.error = error

PullRefused(error) ==
    \E q \in PullSlots :
        /\ pullReturned'[q] # pullReturned[q]
        /\ pullReturned'[q].error = error

\* the step issues no request, and leaves the Local Store, lastSyncedAt and
\* the cooldown deadline as they were
NothingDone ==
    /\ UNCHANGED << storeCategories, storeCards, remoteCategories,
                    remoteFlashcards, retryBlockedUntil >>
    /\ syncState'.lastSyncedAt = syncState.lastSyncedAt
    /\ PushRefused(pushReturned'.error) =>
           /\ ~pushReturned'.success
           /\ pushReturned'.issuedKinds = {}
           /\ pushReturned'.failedAt \in {"guard", "getSession"}
    /\ \A q \in PullSlots :
           pullReturned'[q] # pullReturned[q] =>
               /\ ~pullReturned'[q].success
               /\ pullReturned'[q].failedAt \in {"guard", "getSession"}
               /\ pull[q].remoteCategories = << >>
               /\ pull[q].remoteCards = << >>

Refusals == {"Device is offline", "Please sign in to sync"}

PagesFetched(q) ==
    pull[q].pc \in {"getAllCategories", "getAllCards", "saveAllCategories",
                    "saveAllCards"}

\* the pages the loop requested: the full ones, and the short one that
\* ended it
PagesRequested(q) == (pull[q].offset \div PULL_PAGE_SIZE) + 1

\* C32 as claimed: over remote flashcards that do not change during the
\* pull, the page loop ends with the first page shorter than PULL_PAGE_SIZE
\* (one more, empty, page when the count is a multiple of it), and the rows
\* it accumulated are the remote flashcards, each once.
C32_Pagination_AsClaimed ==
    \A q \in PullSlots :
        PagesFetched(q) =>
            /\ PagesRequested(q) =
                   (Len(remoteFlashcards) \div PULL_PAGE_SIZE) + 1
            /\ Len(pull[q].remoteCards) = Len(remoteFlashcards)
            /\ pull[q].remoteCards \in Reorderings(remoteFlashcards)

(***************************************************************************)
(* The storage layer (useOfflineStorage.ts): withStoreRecovery and the      *)
(* reads and writes of the three collections that are wrapped in it.        *)
(***************************************************************************)
\* messages with which a transaction on a missing object store is refused
NotFoundMessages ==
    {"One of the specified object stores was not found.",
     "'settings' is not a known object store name",
     "No objectStore named settings in this database",
     "The requested database object could not be found."}

\* line 28: `request.error ?? new Error('Failed to open IndexedDB')`
OpenFailed == [isError |-> TRUE, message |-> "Failed to open IndexedDB"]

\* a request on an existing object store that fails
Aborted == [isError |-> TRUE, message |-> "The transaction was aborted."]

\* Every error is taken for a missing object store.
AnyErrorIsMissingStore(error) == TRUE

\* lines 63-75
isMissingObjectStoreError(error) ==
    IF ~error.isError THEN FALSE
    ELSE LET message == toLowerCase(error.message)
         IN  /\ includes(message, "object store")
             /\ \/ includes(message, "not a known")
                \/ includes(message, "not found")
                \/ includes(message, "no objectstore")

StoreReads == {"getAllCards", "getAllCategories", "getSettings"}
StoreWrites == {"saveAllCards", "saveAllCategories", "saveSettings"}

\* lines 126-129: the object store of each wrapper
StoreOf(fn) ==
    CASE fn \in {"getAllCards", "saveAllCards"} -> "flashcards"
      [] fn \in {"getAllCategories", "saveAllCategories"} -> "categories"
      [] OTHER -> "settings"

\* lines 132-136: the key of each wrapper
StorageKey(fn) ==
    CASE fn \in {"getAllCards", "saveAllCards"} -> "all_cards"
      [] fn \in {"getAllCategories", "saveAllCategories"} -> "all_categories"
      [] OTHER -> "app_settings"

\* the default value of the collection fn reads
DefaultOf(fn) ==
    CASE fn = "getAllCards" -> DEFAULT_CARDS
      [] fn = "getAllCategories" -> DEFAULT_CATEGORIES
      [] OTHER -> DEFAULT_SETTINGS

\* line 320: `{ ...DEFAULT_SETTINGS, ...settings }`
SpreadSettings(settings) ==
    [k \in DOMAIN DEFAULT_SETTINGS \cup DOMAIN settings |->
        IF k \in DOMAIN settings THEN settings[k] ELSE DEFAULT_SETTINGS[k]]

\* what `get` finds under the key of fn
StoredUnder(fn) ==
    IF StorageKey(fn) \notin idb.keys THEN [found |-> FALSE, data |-> << >>]
    ELSE [found |-> TRUE,
          data |-> CASE fn = "getAllCards" -> storeCards
                     [] fn = "getAllCategories" -> storeCategories
                     [] OTHER -> idb.settings]

\* what the wrapper returns of a value it found (the stored categories of
\* this specification hold no legacy id, line 222)
ReturnedOf(fn, data) ==
    IF fn = "getSettings" THEN SpreadSettings(data) ELSE data

\* a step of the storage layer leaves the engine, but for the store, alone
storeFrame ==
    /\ UNCHANGED << now, mountOnline, syncState, syncInProgress,
                    retryBlockedUntil, categories, cards, remoteCategories,
                    remoteFlashcards, push, pull, pushReturned, pullReturned,
                    lastTransientAt, mutations, failures >>
    /\ UNCHANGED << pureVars, fullVars, facadeAux >>
    /\ UNCHANGED << hasUnseenMigration, reads, crypto, notice, triggers >>

\* `set(key, value, store)` has succeeded
SetDone(fn, value) ==
    /\ idb' = [idb EXCEPT !.keys = @ \cup {StorageKey(fn)},
                          !.settings = IF StoreOf(fn) = "settings"
                                       THEN value ELSE @]
    /\ storeCards' = IF StoreOf(fn) = "flashcards" THEN value ELSE storeCards
    /\ storeCategories' = IF StoreOf(fn) = "categories"
                          THEN value ELSE storeCategories

\* the wrapper fn is called: it enters its try and withStoreRecovery
StoreCall(fn, argument) ==
    /\ access.pc \in {"idle", "done"}
    /\ access' = [NoAccess EXCEPT
           !.fn = fn, !.pc = "ensure", !.argument = argument,
           !.phase = IF fn \in StoreReads THEN "get" ELSE "set",
           !.recoveries = 1]
    /\ UNCHANGED << idb, storeCards, storeCategories >>
    /\ storeFrame

\* lines 32-61: ensureObjectStores opens the database unless an earlier
\* call's promise is cached, and adds the object stores that are missing
Ensured(database) ==
    IF database.ensureStoresPromise = "resolved" THEN database
    ELSE [database EXCEPT !.objectStoreNames = REQUIRED_STORES,
                          !.ensureStoresPromise = "resolved"]

\* opening the database can fail (lines 27-29, 57-60)
OpenMayFail ==
    /\ idb.ensureStoresPromise = "null"
    /\ idb.failures < MaxFailures

\* line 78: `await ensureObjectStores()` in the try
StoreEnsure ==
    /\ access.pc = "ensure"
    /\ \/ /\ idb' = Ensured(idb)
          /\ access' = [access EXCEPT !.pc = "operation"]
       \/ /\ OpenMayFail
          /\ idb' = [idb EXCEPT !.failures = @ + 1]
          /\ access' = [access EXCEPT !.pc = "catch", !.error = OpenFailed]
    /\ UNCHANGED << storeCards, storeCategories >>
    /\ storeFrame

\* the operation runs: a `get` or a `set` of idb-keyval on the wrapper's
\* object store; it is refused when the database has no such object store
Operation(resolved, rejected) ==
    /\ \/ /\ StoreOf(access.fn) \notin idb.objectStoreNames
          /\ access' = [access EXCEPT
                 !.pc = rejected, !.runs = @ + 1,
                 !.error = [isError |-> TRUE, message |-> idb.notFound]]
          /\ UNCHANGED << idb, storeCards, storeCategories >>
       \/ /\ StoreOf(access.fn) \in idb.objectStoreNames
          /\ idb.failures < MaxFailures
          /\ access' = [access EXCEPT !.pc = rejected, !.runs = @ + 1,
                                      !.error = Aborted]
          /\ idb' = [idb EXCEPT !.failures = @ + 1]
          /\ UNCHANGED << storeCards, storeCategories >>
       \/ /\ StoreOf(access.fn) \in idb.objectStoreNames
          /\ access' = [access EXCEPT
                 !.pc = resolved, !.runs = @ + 1,
                 !.value = IF access.phase = "get"
                           THEN StoredUnder(access.fn) ELSE @]
          /\ CASE access.phase = "get" ->
                      UNCHANGED << idb, storeCards, storeCategories >>
               [] access.phase = "init" ->
                      SetDone(access.fn, DefaultOf(access.fn))
               [] OTHER -> SetDone(access.fn, access.argument)
    /\ storeFrame

\* line 79: `return await operation()`
StoreOperation ==
    /\ access.pc = "operation"
    /\ Operation("resolved", "catch")

\* lines 80-85: the catch rethrows an error that is not a missing object
\* store, and otherwise forgets the cached promise
StoreCatch ==
    /\ access.pc = "catch"
    /\ IF ~isMissingObjectStoreError(access.error)
       THEN /\ access' = [access EXCEPT !.pc = "rejected",
                                        !.caught = access.error]
            /\ idb' = idb
       ELSE /\ access' = [access EXCEPT !.pc = "ensureAgain",
                                        !.caught = access.error]
            /\ idb' = [idb EXCEPT !.ensureStoresPromise = "null"]
    /\ UNCHANGED << storeCards, storeCategories >>
    /\ storeFrame

\* line 86: `await ensureObjectStores()` in the catch
StoreEnsureAgain ==
    /\ access.pc = "ensureAgain"
    /\ \/ /\ idb' = Ensured(idb)
          /\ access' = [access EXCEPT !.pc = "operationAgain",
                                      !.reprovisioned = TRUE]
       \/ /\ OpenMayFail
          /\ idb' = [idb EXCEPT !.failures = @ + 1]
          /\ access' = [access EXCEPT !.pc = "rejected",
                                      !.error = OpenFailed]
    /\ UNCHANGED << storeCards, storeCategories >>
    /\ storeFrame

\* line 87: `return operation()`
StoreOperationAgain ==
    /\ access.pc = "operationAgain"
    /\ Operation("resolved", "rejected")

\* The catch of the wrapper lets the error through.
Rethrown(error) == error

\* the catch of every wrapper logs the error and throws nothing
Swallowed(error) == NoError

\* the wrapper goes on when withStoreRecovery has settled: lines 154-167,
\* 169-175, 200-206, 209-219 with 287-290, 311-325, 327-333
StoreSettle ==
    /\ access.pc \in {"resolved", "rejected"}
    /\ access' =
         IF access.pc = "rejected"
         THEN [access EXCEPT
                  !.pc = "done", !.failed = TRUE,
                  !.thrown = Swallowed(access.error),
                  !.returned = IF access.fn \in StoreReads
                               THEN DefaultOf(access.fn) ELSE << >>]
         ELSE CASE access.phase = "get" /\ ~access.value.found ->
                       [access EXCEPT
                           !.pc = "ensure", !.phase = "init", !.runs = 0,
                           !.recoveries = @ + 1, !.caught = NoError,
                           !.reprovisioned = FALSE]
                [] access.phase = "get" /\ access.value.found ->
                       [access EXCEPT
                           !.pc = "done",
                           !.returned = ReturnedOf(access.fn,
                                                   access.value.data)]
                [] access.phase = "init" ->
                       [access EXCEPT !.pc = "done",
                                      !.returned = DefaultOf(access.fn)]
                [] OTHER -> [access EXCEPT !.pc = "done"]
    /\ UNCHANGED << idb, storeCards, storeCategories >>
    /\ storeFrame

\* a stored category and a stored flashcard of it
KeptCategories ==
    << [id |-> "00000000-0000-4000-8000-0000000000c1", name |-> "Animals",
        order |-> 0, createdAt |-> 0, updatedAt |-> 0,
        syncStatus |-> "synced"] >>

KeptCards ==
    << [id |-> "00000000-0000-4000-8000-0000000000f1",
        categoryId |-> "00000000-0000-4000-8000-0000000000c1",
        updatedAt |-> 0, syncStatus |-> "synced"] >>

\* settings an earlier version saved, and settings of this version
KeptSettings ==
    {[theme |-> "ocean", autoPlayAudio |-> FALSE],
     [DEFAULT_SETTINGS EXCEPT !.voiceSpeed = "slow"]}

\* the arguments of the writes
WrittenBy(fn) ==
    CASE fn = "saveAllCards" -> {<< >>, KeptCards}
      [] fn = "saveAllCategories" -> {KeptCategories}
      [] fn = "saveSettings" ->
             {[DEFAULT_SETTINGS EXCEPT !.repeatAudio = TRUE]}
      [] OTHER -> {<< >>}

\* the database as a session finds it: object stores may be missing (the
\* database was created with fewer, or recreated by another tab after this
\* one cached its promise), and a key is there when something was saved
StoreInit ==
    /\ \E names \in SUBSET (REQUIRED_STORES \ {"images"}),
          populated \in BOOLEAN,
          promise \in {"null", "resolved"},
          settings \in KeptSettings,
          notFound \in NotFoundMessages :
         LET keys == {k \in STORAGE_KEYS :
                         /\ populated
                         /\ \E fn \in StoreReads :
                               /\ StorageKey(fn) = k
                               /\ StoreOf(fn) \in names}
         IN  /\ idb = [objectStoreNames |-> names \cup {"images"},
                       ensureStoresPromise |-> promise, keys |-> keys,
                       settings |-> settings, notFound |-> notFound,
                       failures |-> 0]
             /\ storeCards = IF "all_cards" \in keys
                             THEN KeptCards ELSE << >>
             /\ storeCategories = IF "all_categories" \in keys
                                  THEN KeptCategories ELSE << >>
    /\ access = NoAccess
    /\ triggers = NoTriggers
    /\ now = 1
    /\ mountOnline = TRUE
    /\ syncState = [lastSyncedAt |-> Undefined, isSyncing |-> FALSE,
                    isOnline |-> TRUE, pendingChanges |-> 0]
    /\ syncInProgress = FALSE
    /\ retryBlockedUntil = 0
    /\ categories = << >>
    /\ cards = << >>
    /\ remoteCategories = << >>
    /\ remoteFlashcards = << >>
    /\ push = [p \in Slots |-> IdlePush]
    /\ pull = [q \in PullSlots |-> IdlePull]
    /\ pushReturned = NoResult
    /\ pullReturned = [q \in PullSlots |-> NoResult]
    /\ lastTransientAt = Undefined
    /\ mutations = 0
    /\ failures = 0
    /\ full = IdleFull
    /\ fullReturned = NoFullResult
    /\ lastOp = NoOp
    /\ timer = NoTimer
    /\ hasUnseenMigration = FALSE
    /\ reads = [r \in Readers |-> IdleRead]
    /\ crypto = [randomUUID |-> TRUE, generated |-> 0]
    /\ notice = NoNotice
    /\ PureIdle

StoreNext ==
    \/ \E fn \in StoreReads \cup StoreWrites :
           \E argument \in WrittenBy(fn) : StoreCall(fn, argument)
    \/ StoreEnsure
    \/ StoreOperation
    \/ StoreCatch
    \/ StoreEnsureAgain
    \/ StoreOperationAgain
    \/ StoreSettle

SpecStore == StoreInit /\ [][StoreNext]_vars

(***************************************************************************)
(* Claims about the storage layer (checked under SpecStore).                *)
(***************************************************************************)
\* C22: storage failures are non-fatal.  When the read of the underlying
\* store has failed, getAllCards, getAllCategories and getSettings return
\* the default value of their collection and throw nothing; when the write
\* has failed, saveAllCards, saveAllCategories and saveSettings return
\* normally and throw nothing (and the store holds what it held).
C22_StorageNonFatal ==
    /\ [](access.pc = "done" =>
            /\ access.thrown = NoError
            /\ (access.failed /\ access.fn \in StoreReads) =>
                   access.returned = DefaultOf(access.fn)
            /\ (access.failed /\ access.fn \in StoreWrites) =>
                   access.returned = << >>)
    /\ [][(access.pc = "rejected" /\ access'.pc = "done") =>
            /\ access'.failed
            /\ storeCards' = storeCards
            /\ storeCategories' = storeCategories
            /\ idb'.settings = idb.settings]_vars

\* getSettings has returned the defaults after its read was aborted, though
\* other settings are stored
C22_Witness ==
    /\ access.pc = "done"
    /\ access.fn = "getSettings"
    /\ access.failed
    /\ access.error = Aborted
    /\ access.phase = "get"
    /\ "app_settings" \in idb.keys
    /\ idb.settings # DEFAULT_SETTINGS
    /\ access.returned = DEFAULT_SETTINGS

\* the messages of NotFoundMessages that name an `object store` and say it
\* is `not found` or `not a known` one
ClassifiedMissing ==
    {"One of the specified object stores was not found.",
     "'settings' is not a known object store name"}

\* C23: withStoreRecovery runs its operation at most twice; it runs it a
\* second time only after a failure classified as a missing object store and
\* after ensureObjectStores has provisioned the stores again; any other
\* error, and a failure of the second run, goes to the caller with no
\* further run.
C23_StoreRecovery ==
    /\ [](/\ access.runs <= 2
          /\ access.runs = 2 =>
                /\ access.caught.isError
                /\ access.caught.message \in ClassifiedMissing
                /\ access.reprovisioned
                /\ idb.objectStoreNames = REQUIRED_STORES
          /\ (/\ access.pc \in {"rejected", "ensureAgain"}
              /\ access.caught.message \notin ClassifiedMissing) =>
                /\ access.pc = "rejected"
                /\ access.error = access.caught
                /\ access.runs <= 1)
    /\ [][access.pc = "catch" =>
            /\ access'.runs = access.runs
            /\ access.error.message \notin ClassifiedMissing =>
                   /\ access'.pc = "rejected"
                   /\ access'.error = access.error]_vars
    /\ [][access.pc = "operationAgain" =>
            /\ access'.runs = 2
            /\ access'.pc \in {"resolved", "rejected"}]_vars
    /\ [][access.pc = "rejected" =>
            /\ access'.pc = "done"
            /\ access'.runs = access.runs
            /\ access'.failed]_vars

\* a write was refused for a missing object store, the stores were
\* provisioned again, the second run was aborted and that went to the caller
C23_Witness ==
    /\ access.pc = "rejected"
    /\ access.fn = "saveAllCards"
    /\ access.runs = 2
    /\ access.caught.message \in ClassifiedMissing
    /\ access.reprovisioned
    /\ access.error = Aborted

(***************************************************************************)
(* The callers of a sync in useFlashcards.ts: the hydration at mount, the   *)
(* auth events, and the sync button of Index.tsx.                           *)
(***************************************************************************)
\* auth events with a session, and presses of the sync button
MaxAuthEvents == 2
MaxPresses == 1

\* useFlashcards.ts:39 (60_000 ms), in ticks of the model's clock
AUTO_SYNC_COOLDOWN_MS == 2

\* useFlashcards.ts:100 (30_000 ms), in ticks of the model's clock
HYDRATION_COOLDOWN_MS == 2

\* the slot of the pulls of hydrateFromCloud
HydrationSlot == 2

\* useFlashcards.ts:26-36
isTransientCloudError(message) ==
    LET normalized == toLowerCase(message)
    IN  \/ includes(normalized, "networkerror")
        \/ includes(normalized, "failed to fetch")
        \/ includes(normalized, "temporarily unavailable")
        \/ includes(normalized, "status code: 525")
        \/ includes(normalized, "http/3 525")
        \/ includes(normalized, "cors")

\* lines 64-78: the three reads have resolved (the stored lists of this
\* specification hold no legacy id, so nothing is migrated)
RefreshFromStorage ==
    /\ categories' = sortCategories(storeCategories)
    /\ cards' = storeCards

\* what a step of a caller leaves alone when it calls no sync
callerFrame ==
    UNCHANGED << now, mountOnline, syncState, syncInProgress,
                 retryBlockedUntil, storeCategories, storeCards,
                 remoteCategories, remoteFlashcards, push, pull, pushReturned,
                 pullReturned, lastTransientAt, mutations, failures >>

\* lines 80-94: hydrateFromCloud is called; past its guards it calls
\* pullFromCloud for the first attempt
HydrateFromCloud ==
    IF \/ ~syncState.isOnline
       \/ triggers.cloudHydrationInProgress
       \/ now < triggers.cloudHydrationBlockedUntil
    THEN /\ triggers' = [triggers EXCEPT !.initialized = TRUE]
         /\ callerFrame
    ELSE /\ PullGuards(HydrationSlot, syncState.isOnline)
         /\ triggers' = [triggers EXCEPT
                !.initialized = TRUE, !.cloudHydrationInProgress = TRUE,
                !.hydrate = "pull", !.attempt = 1]

\* lines 143-160: loadData at mount; its refreshFromStorage has resolved and
\* the finally calls hydrateFromCloud
LoadData ==
    /\ ~triggers.initialized
    /\ RefreshFromStorage
    /\ HydrateFromCloud
    /\ UNCHANGED << pureVars, fullVars, facadeAux, storeLayerVars >>

\* the hydration is over (line 115)
HydrationOver(refs) ==
    [refs EXCEPT !.hydrate = "idle", !.cloudHydrationInProgress = FALSE]

\* lines 95-116: the pull of an attempt has returned
HydrateAfterPull ==
    /\ triggers.hydrate = "pull"
    /\ pull[HydrationSlot].pc = "idle"
    /\ LET syncResult == pullReturned[HydrationSlot]
       IN  IF syncResult.success
           THEN /\ RefreshFromStorage
                /\ triggers' = HydrationOver(triggers)
           ELSE /\ UNCHANGED << categories, cards >>
                /\ triggers' =
                     IF isTransientCloudError(syncResult.error)
                     THEN HydrationOver([triggers EXCEPT
                              !.cloudHydrationBlockedUntil =
                                  now + HYDRATION_COOLDOWN_MS])
                     ELSE IF triggers.attempt < 2
                     THEN [triggers EXCEPT !.hydrate = "wait"]
                     ELSE HydrationOver(triggers)
    /\ callerFrame
    /\ UNCHANGED << pureVars, fullVars, facadeAux, storeLayerVars >>

\* lines 96, 104-106: the 250 ms are over and the second attempt pulls
HydrateRetry ==
    /\ triggers.hydrate = "wait"
    /\ PullFromCloud(HydrationSlot, syncState.isOnline)
    /\ triggers' = [triggers EXCEPT !.hydrate = "pull", !.attempt = 2]
    /\ UNCHANGED << pureVars, fullVars, facadeAux, storeLayerVars >>

AuthEvents == {"SIGNED_IN", "INITIAL_SESSION"}

\* No auto-sync is held back for having started a moment ago.
NeverCoolingDown(dateNow, lastAutoSyncAt) == FALSE

\* lines 173-174: now - lastAutoSyncAt.current < AUTO_SYNC_COOLDOWN_MS.  The
\* ref starts at 0, which Date.now() is never within the cooldown of.
CoolingDown(dateNow, lastAutoSyncAt) ==
    /\ lastAutoSyncAt # 0
    /\ dateNow - lastAutoSyncAt < AUTO_SYNC_COOLDOWN_MS

\* lines 169-184 with 201-207: an auth event with a session calls
\* runAutoSync, which past its guards pulls (INITIAL_SESSION) or calls
\* fullSync (SIGNED_IN)
RunAutoSync(event) ==
    /\ triggers.events < MaxAuthEvents
    /\ IF \/ ~syncState.isOnline
          \/ triggers.autoSyncInProgress
          \/ CoolingDown(now, triggers.lastAutoSyncAt)
       THEN /\ triggers' = [triggers EXCEPT !.events = @ + 1]
            /\ callerFrame
            /\ UNCHANGED << categories, cards, fullVars, pureVars, facadeAux,
                            storeLayerVars >>
       ELSE /\ triggers.auto = "idle"
            /\ triggers.button = "idle"
            /\ IF event = "INITIAL_SESSION"
               THEN /\ PullFromCloud(PullSlot, syncState.isOnline)
                    /\ triggers' = [triggers EXCEPT
                           !.events = @ + 1, !.autoSyncInProgress = TRUE,
                           !.lastAutoSyncAt = now, !.auto = "pull"]
                    /\ UNCHANGED << fullVars, pureVars, facadeAux,
                                    storeLayerVars >>
               ELSE /\ FullCall
                    /\ triggers' = [triggers EXCEPT
                           !.events = @ + 1, !.autoSyncInProgress = TRUE,
                           !.lastAutoSyncAt = now, !.auto = "fullSync"]

\* lines 185-198: the sync of runAutoSync has returned
AutoAfterSync ==
    /\ \/ triggers.auto = "pull" /\ pull[PullSlot].pc = "idle"
       \/ triggers.auto = "fullSync" /\ full.pc = "idle"
    /\ LET syncResult == IF triggers.auto = "pull"
                         THEN pullReturned[PullSlot]
                         ELSE fullReturned.result
       IN  IF syncResult.success
           THEN RefreshFromStorage
           ELSE UNCHANGED << categories, cards >>
    /\ triggers' = [triggers EXCEPT !.auto = "idle",
                                    !.autoSyncInProgress = FALSE]
    /\ callerFrame
    /\ UNCHANGED << pureVars, fullVars, facadeAux, storeLayerVars >>

\* SyncButton.tsx:16-19 with Index.tsx:255-258: a press calls fullSync
\* unless the state it rendered is syncing or offline
HandleSync ==
    /\ triggers.presses < MaxPresses
    /\ triggers.auto = "idle"
    /\ triggers.button = "idle"
    /\ ~syncState.isSyncing
    /\ syncState.isOnline
    /\ FullCall
    /\ triggers' = [triggers EXCEPT !.presses = @ + 1,
                                    !.button = "fullSync"]

\* SyncButton.tsx:19-27: the fullSync of the button has returned; the lists
\* in memory stay as they are
HandleSyncAfter ==
    /\ triggers.button = "fullSync"
    /\ full.pc = "idle"
    /\ triggers' = [triggers EXCEPT !.button = "idle"]
    /\ callerFrame
    /\ UNCHANGED << categories, cards >>
    /\ UNCHANGED << pureVars, fullVars, facadeAux, storeLayerVars >>

\* a device whose store holds a pending category and a pending flashcard,
\* and a remote that holds nothing or the category as pushed before
TriggerInit ==
    /\ now = 1
    /\ mountOnline \in BOOLEAN
    /\ storeCategories = SeededCategories
    /\ storeCards = << [id |-> "f1", categoryId |-> "c1", updatedAt |-> 1,
                        syncStatus |-> "pending"] >>
    /\ syncState = [lastSyncedAt |-> Undefined, isSyncing |-> FALSE,
                    isOnline |-> mountOnline, pendingChanges |-> 0]
    /\ syncInProgress = FALSE
    /\ retryBlockedUntil = 0
    /\ categories = << >>
    /\ cards = << >>
    /\ remoteCategories \in
           {<< >>, Upsert(<< >>, CategoryRows(SeededCategories, 1), 1)}
    /\ remoteFlashcards = << >>
    /\ push = [p \in Slots |-> IdlePush]
    /\ pull = [q \in PullSlots |-> IdlePull]
    /\ pushReturned = NoResult
    /\ pullReturned = [q \in PullSlots |-> NoResult]
    /\ lastTransientAt = Undefined
    /\ mutations = 0
    \* the remote and the store answer every request of this specification
    /\ failures = MaxFailures
    /\ FullIdle
    /\ PureIdle

TriggerNext ==
    \/ Tick
    \/ LoadData
    \/ HydrateAfterPull
    \/ HydrateRetry
    \/ \E event \in AuthEvents : RunAutoSync(event)
    \/ AutoAfterSync
    \/ HandleSync
    \/ HandleSyncAfter
    \/ FullAfterPush /\ UNCHANGED triggers
    \/ FullAfterPull /\ UNCHANGED triggers
    \/ PushGetSession(FullSlot)
    \/ PushGetPendingCards(FullSlot)
    \/ PushGetPendingCategories(FullSlot)
    \/ PushUpsertCategories(FullSlot)
    \/ PushGetAllCategories(FullSlot)
    \/ PushSaveAllCategories(FullSlot)
    \/ PushUpsertCards(FullSlot)
    \/ PushGetAllCards(FullSlot)
    \/ PushSaveAllCards(FullSlot)
    \/ \E q \in PullSlots : PullGetSession(q)
    \/ \E q \in PullSlots : PullSelectCategories(q)
    \/ \E q \in PullSlots : PullSelectCards(q)
    \/ \E q \in PullSlots : PullGetAllCategories(q)
    \/ \E q \in PullSlots : PullGetAllCards(q)
    \/ \E q \in PullSlots : PullSaveAllCategories(q)
    \/ \E q \in PullSlots : PullSaveAllCards(q)

SpecTriggers == TriggerInit /\ [][TriggerNext]_vars

(***************************************************************************)
(* The auth events alone, over a clock that outlasts the cooldown.         *)
(***************************************************************************)
AutoInit ==
    /\ TriggerInit
    /\ mountOnline

AutoNext ==
    \/ FacadeTick
    \/ \E event \in AuthEvents : RunAutoSync(event)
    \/ AutoAfterSync
    \/ FullAfterPush /\ UNCHANGED triggers
    \/ FullAfterPull /\ UNCHANGED triggers
    \/ PushGetSession(FullSlot)
    \/ PushGetPendingCards(FullSlot)
    \/ PushGetPendingCategories(FullSlot)
    \/ PushUpsertCategories(FullSlot)
    \/ PushGetAllCategories(FullSlot)
    \/ PushSaveAllCategories(FullSlot)
    \/ PushUpsertCards(FullSlot)
    \/ PushGetAllCards(FullSlot)
    \/ PushSaveAllCards(FullSlot)
    \/ PullGetSession(PullSlot)
    \/ PullSelectCategories(PullSlot)
    \/ PullSelectCards(PullSlot)
    \/ PullGetAllCategories(PullSlot)
    \/ PullGetAllCards(PullSlot)
    \/ PullSaveAllCategories(PullSlot)
    \/ PullSaveAllCards(PullSlot)

SpecAutoSync == AutoInit /\ [][AutoNext]_vars

(***************************************************************************)
(* Deletions of the facade over entities the remote holds, then pulls.     *)
(***************************************************************************)
\* the entities of this device, all in the remote; c1 was edited since
SyncedCategories ==
    << [id |-> "c1", name |-> "Animals", order |-> 0, createdAt |-> 1,
        updatedAt |-> 1, syncStatus |-> "pending"],
       [id |-> "c2", name |-> "Food", order |-> 1, createdAt |-> 1,
        updatedAt |-> 1, syncStatus |-> "synced"] >>

SyncedCards ==
    << [id |-> "f1", categoryId |-> "c2", updatedAt |-> 1,
        syncStatus |-> "synced"],
       [id |-> "f2", categoryId |-> "c1", updatedAt |-> 1,
        syncStatus |-> "synced"] >>

\* the names category c2 has in the remote: the one this device pushed, or
\* one another device of the owner gave it
RemoteNamesOfC2 == {"Food", "animals "}

TombstoneInit ==
    /\ now = MaxTime
    /\ mountOnline = TRUE
    /\ storeCategories = SyncedCategories
    /\ storeCards = SyncedCards
    /\ categories = storeCategories
    /\ cards = storeCards
    /\ syncState = [lastSyncedAt |-> 1, isSyncing |-> FALSE,
                    isOnline |-> TRUE, pendingChanges |-> 1]
    /\ syncInProgress = FALSE
    /\ retryBlockedUntil = 0
    /\ \E name \in RemoteNamesOfC2 :
          remoteCategories =
              Upsert(<< >>,
                     CategoryRows([SyncedCategories EXCEPT ![2].name = name],
                                  1), 1)
    /\ remoteFlashcards = Upsert(<< >>, CardRows(SyncedCards, 1), 1)
    /\ push = [p \in Slots |-> IdlePush]
    /\ pull = [q \in PullSlots |-> IdlePull]
    /\ pushReturned = NoResult
    /\ pullReturned = [q \in PullSlots |-> NoResult]
    /\ lastTransientAt = Undefined
    /\ mutations = 0
    /\ failures = 0
    /\ FullIdle
    /\ PureIdle

\* the deletions and the calls are made one after the other
TombstoneNext ==
    \/ NothingInFlight /\ FacadeDeleteCard
    \/ NothingInFlight /\ FacadeDeleteCategory
    \/ NothingInFlight /\ PullCall(PullSlot)
    \/ PullGetSession(PullSlot)
    \/ PullSelectCategories(PullSlot)
    \/ PullSelectCards(PullSlot)
    \/ PullGetAllCategories(PullSlot)
    \/ PullGetAllCards(PullSlot)
    \/ PullSaveAllCategories(PullSlot)
    \/ PullSaveAllCards(PullSlot)
    \/ NothingInFlight /\ PushCall(FullSlot)
    \/ PushGetSession(FullSlot)
    \/ PushGetPendingCards(FullSlot)
    \/ PushGetPendingCategories(FullSlot)
    \/ PushUpsertCategories(FullSlot)
    \/ PushGetAllCategories(FullSlot)
    \/ PushSaveAllCategories(FullSlot)
    \/ PushUpsertCards(FullSlot)
    \/ PushGetAllCards(FullSlot)
    \/ PushSaveAllCards(FullSlot)

SpecTombstone == TombstoneInit /\ [][TombstoneNext]_vars

(***************************************************************************)
(* Claims about the callers (checked under SpecTriggers).                   *)
(***************************************************************************)
\* the invocations of pullFromCloud that are executing
PullsInFlight == {q \in PullSlots : pull[q].pc # "idle"}

\* C25 as claimed: at most one pull is executing at any time; a
\* pullFromCloud called by the hydration, by the auto-sync of an auth event
\* or by the fullSync of the button while another pull is in flight does not
\* run concurrently with it.
C25_OnePullAtATime_AsClaimed == Cardinality(PullsInFlight) <= 1

\* the step in which an auth event starts an auto-sync
AutoSyncStarts ==
    /\ triggers'.events = triggers.events + 1
    /\ triggers' # [triggers EXCEPT !.events = @ + 1]

\* C33: an auth event starts an auto-sync only while the device is online,
\* no auto-sync is in progress and AUTO_SYNC_COOLDOWN_MS have passed since
\* the last one started; the start is recorded as the time of the start, so
\* two starts are at least the cooldown apart whatever the earlier one
\* returned; and an auto-sync is in progress exactly from its start to the
\* return of its sync.
C33_AutoSyncCooldown ==
    /\ [][AutoSyncStarts =>
             /\ syncState.isOnline
             /\ ~triggers.autoSyncInProgress
             /\ triggers.auto = "idle"
             /\ triggers.lastAutoSyncAt # 0 =>
                    now - triggers.lastAutoSyncAt >= AUTO_SYNC_COOLDOWN_MS
             /\ triggers'.lastAutoSyncAt = now
             /\ triggers'.autoSyncInProgress]_vars
    /\ [](triggers.autoSyncInProgress <=> triggers.auto # "idle")
    /\ [][triggers'.lastAutoSyncAt # triggers.lastAutoSyncAt => AutoSyncStarts]_vars

\* a second auto-sync has started, a cooldown after the first, whose pull
\* found no user
C33_Witness ==
    /\ triggers.events = 2
    /\ triggers.auto = "fullSync"
    /\ triggers.lastAutoSyncAt >= 1 + AUTO_SYNC_COOLDOWN_MS
    /\ pullReturned[PullSlot].error = "Please sign in to sync"
    /\ push[FullSlot].pc = "getSession"

\* the step in which the pull of slot q returns success
PullSucceeds(q) ==
    /\ pull[q].pc # "idle"
    /\ pull'[q].pc = "idle"
    /\ pullReturned'[q].success

\* the entities the last mutation of the facade deleted
DeletedCategories ==
    IF lastOp.op = "deleteCategory" THEN {lastOp.arg[1]} ELSE {}

DeletedCards ==
    CASE lastOp.op = "deleteCard" -> {lastOp.arg[1]}
      [] lastOp.op = "deleteCategory" ->
             {f.id : f \in {f \in ItemsOf(lastOp.cards) :
                               f.categoryId = lastOp.arg[1]}}
      [] OTHER -> {}

\* no step removes a row from the remote tables
RemoteKeepsRows ==
    /\ IdsOf(remoteCategories) \subseteq IdsOf(remoteCategories')
    /\ IdsOf(remoteFlashcards) \subseteq IdsOf(remoteFlashcards')

KeptByIdOrName(id, rows, stored) ==
    \/ id \in IdsOf(stored)
    \/ \E r \in ItemsOf(rows), c \in ItemsOf(stored) :
          /\ r.id = id
          /\ KeyOf(c) = KeyOf(r)

OnlineEvent ==
    /\ ~syncState.isOnline
    /\ syncState'.isOnline

\* C35 as claimed: the online event sets isOnline and calls a push that is
\* not refused as 'Device is offline', whatever online and offline events
\* came before and whether or not the hook was mounted online.
C35_OnlineTriggersSync_AsClaimed ==
    [][OnlineEvent =>
         /\ pushReturned' # pushReturned
         /\ pushReturned'.error # "Device is offline"]_vars

(***************************************************************************)
(* The facade's mutations and the fullSync of SyncButton (Index.tsx:257,    *)
(* `onSync={fullSync}`), over a remote that holds the entities of another   *)
(* device of the owner.  Nothing reloads the facade's lists after it.       *)
(***************************************************************************)
\* what the other device pushed: category c3 and its flashcard f2
OtherDeviceCategories ==
    << [id |-> "c3", name |-> "Food", order |-> 0, createdAt |-> 1,
        updatedAt |-> 1, syncStatus |-> "pending"] >>

OtherDeviceCards ==
    << [id |-> "f2", categoryId |-> "c3", updatedAt |-> 1,
        syncStatus |-> "pending"] >>

ButtonInit ==
    /\ now = MaxTime
    /\ mountOnline = TRUE
    /\ \E n \in 0..1 :
          /\ categories = CreatedCategories(n)
          /\ cards = << >>
    /\ storeCategories = categories
    /\ storeCards = cards
    /\ syncState = [lastSyncedAt |-> Undefined, isSyncing |-> FALSE,
                    isOnline |-> TRUE,
                    pendingChanges |-> PendingCount(cards, categories)]
    /\ syncInProgress = FALSE
    /\ retryBlockedUntil = 0
    /\ remoteCategories = Upsert(<< >>, CategoryRows(OtherDeviceCategories, 1), 1)
    /\ remoteFlashcards = Upsert(<< >>, CardRows(OtherDeviceCards, 1), 1)
    /\ push = [p \in Slots |-> IdlePush]
    /\ pull = [q \in PullSlots |-> IdlePull]
    /\ pushReturned = NoResult
    /\ pullReturned = [q \in PullSlots |-> NoResult]
    /\ lastTransientAt = Undefined
    /\ mutations = 0
    /\ failures = MaxFailures
    /\ FullIdle
    /\ PureIdle

\* the user edits while no sync is running
AtRest == NothingInFlight /\ full.pc = "idle"

ButtonNext ==
    \/ AtRest /\ FacadeAddCard
    \/ AtRest /\ FacadeUpdateCard
    \/ AtRest /\ FacadeAddCategory
    \/ AtRest /\ FacadeUpdateCategory
    \/ AtRest /\ FacadeReorderCategories
    \/ FullCall /\ UNCHANGED triggers
    \/ FullAfterPush /\ UNCHANGED triggers
    \/ FullAfterPull /\ UNCHANGED triggers
    \/ PushGetSession(FullSlot)
    \/ PushGetPendingCards(FullSlot)
    \/ PushGetPendingCategories(FullSlot)
    \/ PushUpsertCategories(FullSlot)
    \/ PushGetAllCategories(FullSlot)
    \/ PushSaveAllCategories(FullSlot)
    \/ PushUpsertCards(FullSlot)
    \/ PushGetAllCards(FullSlot)
    \/ PushSaveAllCards(FullSlot)
    \/ PullGetSession(PullSlot)
    \/ PullSelectCategories(PullSlot)
    \/ PullSelectCards(PullSlot)
    \/ PullGetAllCategories(PullSlot)
    \/ PullGetAllCards(PullSlot)
    \/ PullSaveAllCategories(PullSlot)
    \/ PullSaveAllCards(PullSlot)

SpecButton == ButtonInit /\ [][ButtonNext]_vars

\* the ids of the entities the mutation op of the arguments arg creates or
\* changes
ChangedCategories(op, arg) ==
    CASE op \in {"addCategory", "updateCategory"} -> {arg[1]}
      [] op = "reorderCategories" -> {arg[i] : i \in 1..Len(arg)}
      [] OTHER -> {}

ChangedCards(op, arg) ==
    IF op \in {"addCard", "updateCard"} THEN {arg[1]} ELSE {}

\* the entities of `changed` are in `after`, pending, with updatedAt = at
LeftPending(after, changed, at) ==
    \A id \in changed :
        \E e \in ItemsOf(after) :
            e.id = id /\ e.syncStatus = "pending" /\ e.updatedAt = at

\* the ids of the other entities are those of before
OtherIdsKept(before, after, changed) ==
    IdsOf(before) \ changed = IdsOf(after) \ changed

CreatesOrChanges ==
    /\ AnyMutation
    /\ lastOp'.op \in {"addCard", "addCategory", "updateCard",
                       "updateCategory", "reorderCategories"}

\* C36 as claimed: addCard, addCategory, updateCard, updateCategory and
\* reorderCategories leave the entity they create or change pending with
\* updatedAt equal to the time of the mutation, and leave the set of the ids
\* of all other entities as it was, in the facade's memory and in the Local
\* Store.
C36_MutationsMarkPending_AsClaimed ==
    [][CreatesOrChanges =>
         LET op == lastOp'.op
             arg == lastOp'.arg
         IN  /\ LeftPending(categories', ChangedCategories(op, arg), now)
             /\ LeftPending(storeCategories', ChangedCategories(op, arg), now)
             /\ LeftPending(cards', ChangedCards(op, arg), now)
             /\ LeftPending(storeCards', ChangedCards(op, arg), now)
             /\ OtherIdsKept(categories, categories',
                             ChangedCategories(op, arg))
             /\ OtherIdsKept(cards, cards', ChangedCards(op, arg))
             /\ OtherIdsKept(storeCategories, storeCategories',
                             ChangedCategories(op, arg))
             /\ OtherIdsKept(storeCards, storeCards',
                             ChangedCards(op, arg))]_vars

\* a push or a pull is between its guards and its return
SyncExecuting ==
    \/ \E p \in Slots : InFlight(p)
    \/ \E q \in PullSlots : pull[q].pc # "idle"

\* C37 as claimed: isSyncing is true whenever a push or a pull is executing;
\* when a pull and a push overlap, the return of one does not clear the flag
\* while the other is still in flight.
C37_IsSyncingWhileExecuting_AsClaimed == SyncExecuting => syncState.isSyncing

(***************************************************************************)
(* The facade's creating and changing mutations with their debounced push, *)
(* where time advances, every due timeout fires and every request of a     *)
(* push is answered.                                                       *)
(***************************************************************************)
\* Date.now() of this specification goes up to this, so that the timeout of
\* a mutation made while the first push runs still comes due.
MaxLiveClock == 5

LiveInit ==
    /\ FacadeInit
    /\ mountOnline = TRUE
    /\ categories = CreatedCategories(1)
    /\ cards = << >>

\* Date.now() advances; a timeout fires when it is due.
LiveTick ==
    /\ now < MaxLiveClock
    /\ \A handle \in timer.pending : now < handle.at
    /\ now' = now + 1
    /\ UNCHANGED << mountOnline, syncState, syncInProgress, retryBlockedUntil,
                    storeCategories, storeCards, categories, cards,
                    remoteCategories, remoteFlashcards, push, pull,
                    pushReturned, pullReturned, lastTransientAt, mutations,
                    failures >>
    /\ UNCHANGED otherVars

\* a mutation whose timeout comes due within the clock of the specification
InTime == now + SYNC_DEBOUNCE_MS <= MaxLiveClock

\* the user is signed in: getSession answers with a session
SessionFound(p) == push'[p].pc = "getPendingCards"

LiveNext ==
    \/ LiveTick
    \/ InTime /\ FacadeAddCard
    \/ InTime /\ FacadeUpdateCard
    \/ InTime /\ FacadeAddCategory
    \/ InTime /\ FacadeUpdateCategory
    \/ TimerFire(TimerSlot)
    \/ PushGetSession(TimerSlot) /\ SessionFound(TimerSlot)
    \/ PushGetPendingCards(TimerSlot)
    \/ PushGetPendingCategories(TimerSlot)
    \/ PushUpsertCategories(TimerSlot)
    \/ PushGetAllCategories(TimerSlot)
    \/ PushSaveAllCategories(TimerSlot)
    \/ PushUpsertCards(TimerSlot)
    \/ PushGetAllCards(TimerSlot)
    \/ PushSaveAllCards(TimerSlot)

\* Weak fairness of the clock, of the timeouts and of the answers to the
\* requests of a push (the enabling condition of the answers written as the
\* state it is: a push in flight has exactly one request outstanding).
SpecFacadeLive ==
    /\ LiveInit
    /\ [][LiveNext]_vars
    /\ WF_vars(LiveTick)
    /\ WF_vars(TimerFire(TimerSlot))
    /\ \/ []<>(~InFlight(TimerSlot))
       \/ []<><<PushAnswer(TimerSlot)>>_vars

\* the Local Store holds the version of entity id that was written at t
StoredVersion(stored, id, t) ==
    \E e \in ItemsOf(stored) : e.id = id /\ e.updatedAt = t

\* the remote row of id is at least as recent as t
RemoteAtLeast(table, id, t) ==
    \E i \in 1..Len(table) :
        table[i].id = id /\ getTime(table[i].updated_at) >= t

\* the times of the mutations of a behaviour
MutationTimes == 1..(MaxLiveClock - SYNC_DEBOUNCE_MS)

\* C38 as claimed: no local change is stranded.  With the device online, the
\* user signed in and the remote accepting every upsert, each version of a
\* category or flashcard that a mutation of the facade wrote (also while a
\* push was in flight) is eventually in the remote, as that version or a
\* later one, without a further mutation.
C38_NoChangeStranded_AsClaimed ==
    /\ \A id \in FacadeCategoryIds : \A t \in MutationTimes :
          [](StoredVersion(storeCategories, id, t) =>
                <>RemoteAtLeast(remoteCategories, id, t))
    /\ \A id \in FacadeCardIds : \A t \in MutationTimes :
          [](StoredVersion(storeCards, id, t) =>
                <>RemoteAtLeast(remoteFlashcards, id, t))

(***************************************************************************)
(* Two devices of one owner: the pushes of this device, and the upserts    *)
(* that the same syncToCloud running on the other device sends.            *)
(***************************************************************************)
\* the name the other device gave category c1
OtherDeviceNames == {"Zoo"}

\* both devices hold c1 and f1, which the remote has; this device changed
\* both at time 1 and has not pushed since
DevicesInit ==
    /\ now = 1
    /\ mountOnline = TRUE
    /\ storeCategories = SeededCategories
    /\ storeCards = << [id |-> "f1", categoryId |-> "c1", updatedAt |-> 1,
                        syncStatus |-> "pending"] >>
    /\ categories = storeCategories
    /\ cards = storeCards
    /\ syncState = [lastSyncedAt |-> Undefined, isSyncing |-> FALSE,
                    isOnline |-> TRUE,
                    pendingChanges |-> PendingCount(storeCards, storeCategories)]
    /\ syncInProgress = FALSE
    /\ retryBlockedUntil = 0
    /\ remoteCategories = Upsert(<< >>, CategoryRows(storeCategories, 1), 1)
    /\ remoteFlashcards = Upsert(<< >>, CardRows(storeCards, 1), 1)
    /\ push = [p \in Slots |-> IdlePush]
    /\ pull = [q \in PullSlots |-> IdlePull]
    /\ pushReturned = NoResult
    /\ pullReturned = [q \in PullSlots |-> NoResult]
    /\ lastTransientAt = Undefined
    /\ mutations = 0
    /\ failures = MaxFailures
    /\ FullIdle
    /\ PureIdle

\* lines 261-264 on the other device: the upsert of its pending category,
\* changed at time updatedAt
OtherDeviceUpsertsCategory ==
    /\ \E name \in OtherDeviceNames, updatedAt \in 1..now :
          remoteCategories' =
              Upsert(remoteCategories,
                     << [id |-> "c1", name |-> name,
                         updated_at |-> toISOString(updatedAt)] >>, now)
    /\ UNCHANGED << now, mountOnline, syncState, syncInProgress,
                    retryBlockedUntil, storeCategories, storeCards, categories,
                    cards, remoteFlashcards, push, pull, pushReturned,
                    pullReturned, lastTransientAt, mutations, failures >>
    /\ UNCHANGED otherVars

\* lines 293-296 on the other device: the upsert of its pending flashcard
OtherDeviceUpsertsCard ==
    /\ \E updatedAt \in 1..now :
          remoteFlashcards' =
              Upsert(remoteFlashcards,
                     << [id |-> "f1", category_id |-> "c1",
                         updated_at |-> toISOString(updatedAt)] >>, now)
    /\ UNCHANGED << now, mountOnline, syncState, syncInProgress,
                    retryBlockedUntil, storeCategories, storeCards, categories,
                    cards, remoteCategories, push, pull, pushReturned,
                    pullReturned, lastTransientAt, mutations, failures >>
    /\ UNCHANGED otherVars

DevicesNext ==
    \/ Tick
    \/ OtherDeviceUpsertsCategory
    \/ OtherDeviceUpsertsCard
    \/ PushCall(FullSlot)
    \/ PushGetSession(FullSlot)
    \/ PushGetPendingCards(FullSlot)
    \/ PushGetPendingCategories(FullSlot)
    \/ PushUpsertCategories(FullSlot)
    \/ PushGetAllCategories(FullSlot)
    \/ PushSaveAllCategories(FullSlot)
    \/ PushUpsertCards(FullSlot)
    \/ PushGetAllCards(FullSlot)
    \/ PushSaveAllCards(FullSlot)

SpecDevices == DevicesInit /\ [][DevicesNext]_vars

\* no row of `batch` is older than the row of its id in `table`
NoOlderThan(table, batch) ==
    \A i \in 1..Len(batch) :
        LET j == MapIndex(table, batch[i].id)
        IN  j # 0 =>
              getTime(batch[i].updated_at) >= getTime(table[j].updated_at)

\* the updated_at of no row of `before` is larger than in `after`
NonDecreasing(before, after) ==
    \A j \in 1..Len(before) :
        LET k == MapIndex(after, before[j].id)
        IN  /\ k # 0
            /\ getTime(after[k].updated_at) >= getTime(before[j].updated_at)

\* C39 as claimed: last writer wins in the remote.  The upsert of a push
\* does not replace a remote row by a version whose updatedAt is smaller
\* than the updated_at the row held, and the updated_at of every remote row
\* never decreases, however the pushes of the two devices interleave.
C39_RemoteLastWriterWins_AsClaimed ==
    [][/\ \A p \in Slots :
            /\ (push[p].pc = "upsertCategories"
                    /\ remoteCategories' # remoteCategories) =>
                  NoOlderThan(remoteCategories,
                              BatchAt(push[p].rows, push[p].index))
            /\ (push[p].pc = "upsertCards"
                    /\ remoteFlashcards' # remoteFlashcards) =>
                  NoOlderThan(remoteFlashcards,
                              BatchAt(push[p].rows, push[p].index))
       /\ NonDecreasing(remoteCategories, remoteCategories')
       /\ NonDecreasing(remoteFlashcards, remoteFlashcards')]_vars

\* a step of the pull of slot q
PullStep(q) == pull'[q] # pull[q] \/ pullReturned'[q] # pullReturned[q]

\* the pull of slot q returns success=false in this step
PullFails(q) ==
    /\ pullReturned'[q] # pullReturned[q]
    /\ ~pullReturned'[q].success
    /\ pullReturned'[q].error # "in flight"

\* the pull of slot q is at its guards or waits for the session, for the
\* categories or for a page of flashcards
Fetching(q) ==
    pull[q].pc \in {"idle", "getSession", "selectCategories", "selectCards"}

\* C40: a pull that returns success=false has left the categories and the
\* flashcards of the Local Store and lastSyncedAt as they were.  It fails
\* only at its guards, at getSession or at a select; none of its steps up
\* to there writes the store or lastSyncedAt; and once it reads the local
\* collections, which is after the last page, it does not go back to
\* fetching and returns success.
C40_FailedPullLeavesStore ==
    [][\A q \in PullSlots :
          /\ PullFails(q) => Fetching(q)
          /\ (PullStep(q) /\ Fetching(q)) =>
                /\ storeCategories' = storeCategories
                /\ storeCards' = storeCards
                /\ syncState'.lastSyncedAt = syncState.lastSyncedAt
          /\ (PullStep(q) /\ ~Fetching(q)) =>
                /\ pull'[q].pc \notin {"getSession", "selectCategories",
                                       "selectCards"}
                /\ pull'[q].pc = "idle" => pullReturned'[q].success]_vars

\* a pull over a store that holds entities has failed at a page of
\* flashcards
C40_Witness ==
    \E q \in PullSlots :
        /\ pull[q].pc = "idle"
        /\ ~pullReturned[q].success
        /\ pullReturned[q].failedAt = "selectCards"
        /\ Len(storeCategories) > 0

=============================================================================
